---- MODULE Spec2Model ----
\* Verification model of the sysmon core library: the Engine (sysmon_create,
\* sysmon_poll, sysmon_destroy), its module registry, the configuration
\* readers and the snapshot builder it drives.
EXTENDS Integers, Sequences, FiniteSets, TLC

\* ---------------------------------------------------------------------
\* Bounds of the model
\* ---------------------------------------------------------------------

\* Largest value the monotonic clock reaches (milliseconds).
MaxNow == 2

\* Number of distinct samples a metric source can return.
MaxSample == 2

\* ---------------------------------------------------------------------
\* Program constants
\* ---------------------------------------------------------------------

\* Number of entries sysmon_builtin_modules reports.
BuiltinCount == 4

\* out_config->interval_ms before the ini is consulted.
DefaultIntervalMs == 1000

\* sysmon_result_t
SYSMON_OK == "OK"
SYSMON_ERR_INVALID_ARGUMENT == "InvalidArgument"
SYSMON_ERR_IO == "IO"
SYSMON_ERR_PARSE == "Parse"
SYSMON_ERR_NOT_SUPPORTED == "NotSupported"
SYSMON_ERR_OUT_OF_MEMORY == "OutOfMemory"
SYSMON_ERR_INTERNAL == "Internal"

\* ---------------------------------------------------------------------
\* C strings: a string is the sequence of its characters; NULL is a
\* distinguished value that is no character sequence.
\* ---------------------------------------------------------------------

NULL == <<"<NULL>">>

Str_empty == <<>>
Str_0 == <<"0">>
Str_1 == <<"1">>
Str_2 == <<"2">>
Str_plus2 == <<"+", "2">>
Str_minus1 == <<"-", "1">>
Str_2x == <<"2", "x">>
Str_abc == <<"a", "b", "c">>
Str_false == <<"f", "a", "l", "s", "e">>
Str_OFF == <<"O", "F", "F">>
Str_No == <<"N", "o">>
Str_Yes == <<"Y", "e", "s">>
Str_maybe == <<"m", "a", "y", "b", "e">>
\* 2^32, one past the largest uint32
Str_4294967296 == <<"4", "2", "9", "4", "9", "6", "7", "2", "9", "6">>
\* 2^64, one past the largest unsigned long
Str_18446744073709551616 ==
  <<"1", "8", "4", "4", "6", "7", "4", "4", "0", "7", "3", "7", "0", "9", "5", "5", "1", "6", "1", "6">>
\* -(2^64 - 1)
Str_minus18446744073709551615 ==
  <<"-", "1", "8", "4", "4", "6", "7", "4", "4", "0", "7", "3", "7", "0", "9", "5", "5", "1", "6", "1", "5">>

UpperChars ==
  <<"A", "B", "C", "D", "E", "F", "G", "H", "I", "J", "K", "L", "M",
    "N", "O", "P", "Q", "R", "S", "T", "U", "V", "W", "X", "Y", "Z">>

LowerChars ==
  <<"a", "b", "c", "d", "e", "f", "g", "h", "i", "j", "k", "l", "m",
    "n", "o", "p", "q", "r", "s", "t", "u", "v", "w", "x", "y", "z">>

DigitChars == <<"0", "1", "2", "3", "4", "5", "6", "7", "8", "9">>

\* tolower
tolower(c) ==
  IF \E i \in 1..26 : UpperChars[i] = c
    THEN LowerChars[CHOOSE i \in 1..26 : UpperChars[i] = c]
    ELSE c

\* strcmp(a, b) == 0
strcmp_eq(a, b) == a = b

\* strcasecmp(a, b) == 0
strcasecmp_eq(a, b) ==
  /\ Len(a) = Len(b)
  /\ \A i \in 1..Len(a) : tolower(a[i]) = tolower(b[i])

isdigit(c) == \E i \in 1..10 : DigitChars[i] = c

DigitVal(c) == (CHOOSE i \in 1..10 : DigitChars[i] = c) - 1

\* ---------------------------------------------------------------------
\* Unsigned decimal numbers as digit sequences (most significant first),
\* so that values up to 2^64 are compared and subtracted exactly.
\* ---------------------------------------------------------------------

RECURSIVE StripZeros(_)
StripZeros(d) ==
  IF d # <<>> /\ d[1] = 0 THEN StripZeros(Tail(d)) ELSE d

\* -1, 0, 1 for a < b, a = b, a > b; a and b without leading zeros
RECURSIVE DecCmpSameLen(_, _)
DecCmpSameLen(a, b) ==
  IF a = <<>> THEN 0
  ELSE IF a[1] < b[1] THEN -1
  ELSE IF a[1] > b[1] THEN 1
  ELSE DecCmpSameLen(Tail(a), Tail(b))

DecCmp(a, b) ==
  IF Len(a) < Len(b) THEN -1
  ELSE IF Len(a) > Len(b) THEN 1
  ELSE DecCmpSameLen(a, b)

\* a - b for a >= b, both of length n, digit i counted from the right
RECURSIVE DecSubFrom(_, _, _, _)
DecSubFrom(a, b, i, borrow) ==
  IF i = 0 THEN <<>>
  ELSE LET x == a[i] - b[i] - borrow
       IN  Append(DecSubFrom(a, b, i - 1, IF x < 0 THEN 1 ELSE 0),
                  IF x < 0 THEN x + 10 ELSE x)

RECURSIVE ZeroPad(_, _)
ZeroPad(d, n) == IF Len(d) >= n THEN d ELSE ZeroPad(<<0>> \o d, n)

DecSub(a, b) == StripZeros(DecSubFrom(a, ZeroPad(b, Len(a)), Len(a), 0))

RECURSIVE DecToInt(_)
DecToInt(d) ==
  IF d = <<>> THEN 0 ELSE DecToInt(SubSeq(d, 1, Len(d) - 1)) * 10 + d[Len(d)]

\* ULONG_MAX on an LP64 target (Linux and macOS builds): 2^64 - 1
ULongMaxDigits == <<1, 8, 4, 4, 6, 7, 4, 4, 0, 7, 3, 7, 0, 9, 5, 5, 1, 6, 1, 5>>
TwoPow64Digits == <<1, 8, 4, 4, 6, 7, 4, 4, 0, 7, 3, 7, 0, 9, 5, 5, 1, 6, 1, 6>>
\* 0xfffffffful
U32MaxDigits == <<4, 2, 9, 4, 9, 6, 7, 2, 9, 5>>

\* ---------------------------------------------------------------------
\* strtoul(v, &end, 10) on a value the ini loader has already trimmed.
\* Result: n (digits), endOff (offset of end from v), erange (errno).
\* ---------------------------------------------------------------------

RECURSIVE DigitsPrefix(_)
DigitsPrefix(s) ==
  IF s # <<>> /\ isdigit(s[1])
    THEN <<DigitVal(s[1])>> \o DigitsPrefix(Tail(s))
    ELSE <<>>

strtoul(v) ==
  LET signed == v # <<>> /\ v[1] \in {"+", "-"}
      neg == v # <<>> /\ v[1] = "-"
      body == IF signed THEN Tail(v) ELSE v
      ds == DigitsPrefix(body)
      mag == StripZeros(ds)
      overflow == DecCmp(mag, ULongMaxDigits) > 0
  IN  IF ds = <<>>
        THEN [n |-> <<>>, endOff |-> 0, erange |-> FALSE]
        ELSE [n |-> IF overflow THEN ULongMaxDigits
                    ELSE IF neg /\ mag # <<>> THEN DecSub(TwoPow64Digits, mag)
                    ELSE mag,
              endOff |-> (IF signed THEN 1 ELSE 0) + Len(ds),
              erange |-> overflow]

\* ---------------------------------------------------------------------
\* ini access
\* ---------------------------------------------------------------------

\* An ini is the sequence of its entries <<section, key, value>>, values
\* trimmed by the loader.  sysmon_ini_get returns the first match.
RECURSIVE sysmon_ini_get(_, _, _)
sysmon_ini_get(ini, section, key) ==
  IF ini = <<>> THEN NULL
  ELSE IF ini[1][1] = section /\ ini[1][2] = key THEN ini[1][3]
  ELSE sysmon_ini_get(Tail(ini), section, key)

\* A parse_bool that compares every token with strcmp.
parse_bool_cased(s, default_value) ==
  IF s = NULL THEN default_value
  ELSE IF strcmp_eq(s, <<"1">>) THEN TRUE
  ELSE IF strcmp_eq(s, <<"0">>) THEN FALSE
  ELSE IF strcmp_eq(s, <<"t", "r", "u", "e">>) THEN TRUE
  ELSE IF strcmp_eq(s, <<"f", "a", "l", "s", "e">>) THEN FALSE
  ELSE IF strcmp_eq(s, <<"y", "e", "s">>) THEN TRUE
  ELSE IF strcmp_eq(s, <<"n", "o">>) THEN FALSE
  ELSE IF strcmp_eq(s, <<"o", "n">>) THEN TRUE
  ELSE IF strcmp_eq(s, <<"o", "f", "f">>) THEN FALSE
  ELSE default_value

parse_bool(s, default_value) ==
  IF s = NULL THEN default_value
  ELSE IF strcmp_eq(s, <<"1">>) THEN TRUE
  ELSE IF strcmp_eq(s, <<"0">>) THEN FALSE
  ELSE IF strcasecmp_eq(s, <<"t", "r", "u", "e">>) THEN TRUE
  ELSE IF strcasecmp_eq(s, <<"f", "a", "l", "s", "e">>) THEN FALSE
  ELSE IF strcasecmp_eq(s, <<"y", "e", "s">>) THEN TRUE
  ELSE IF strcasecmp_eq(s, <<"n", "o">>) THEN FALSE
  ELSE IF strcasecmp_eq(s, <<"o", "n">>) THEN TRUE
  ELSE IF strcasecmp_eq(s, <<"o", "f", "f">>) THEN FALSE
  ELSE default_value

sysmon_ini_get_bool(ini, section, key, default_value) ==
  parse_bool(sysmon_ini_get(ini, section, key), default_value)

\* Result: [ok, value]
sysmon_ini_get_u32(ini, section, key, default_value) ==
  LET v == sysmon_ini_get(ini, section, key)
  IN  IF v = NULL \/ v = <<>>
        THEN [ok |-> TRUE, value |-> default_value]
        ELSE LET r == strtoul(v)
             IN  IF \/ r.erange
                    \/ r.endOff = 0
                    \/ r.endOff # Len(v)
                    \/ DecCmp(r.n, U32MaxDigits) > 0
                   THEN [ok |-> FALSE, value |-> default_value]
                   ELSE [ok |-> TRUE, value |-> DecToInt(r.n)]

\* Result: [rc, interval_ms, err]
sysmon_config_load_from_ini(ini) ==
  LET r == sysmon_ini_get_u32(ini, "sysmon", "interval_ms", DefaultIntervalMs)
  IN  IF ~r.ok \/ r.value = 0
        THEN [rc |-> SYSMON_ERR_PARSE, interval_ms |-> DefaultIntervalMs,
              err |-> "invalid sysmon.interval_ms (must be an integer > 0)"]
        ELSE [rc |-> SYSMON_OK, interval_ms |-> r.value, err |-> "(null)"]

\* ---------------------------------------------------------------------
\* Module registry
\* ---------------------------------------------------------------------

\* vtable names in registration order
sysmon_builtin_modules == <<"cpu", "ram", "battery", "network">>

ModuleIdx == 1..BuiltinCount

\* snprintf(section, "module.%s", name)
SectionOf(name) == "module." \o name

\* snprintf(name, "module.%s.error", module_name)
ErrorMetricName(name) == "module." \o name \o ".error"

\* ---------------------------------------------------------------------
\* Collectors, as the Engine sees them: a private cache (has_data and the
\* sample the emitted values were computed from) behind create/poll/destroy.
\* ---------------------------------------------------------------------

\* inst->state == NULL
NoState == [alloc |-> FALSE, has_data |-> FALSE, sample |-> 0]

\* *out_state after a successful create (calloc'ed, no sample yet)
FreshState == [alloc |-> TRUE, has_data |-> FALSE, sample |-> 0]

Samples == 1..MaxSample

\* Metric names each collector adds, in order; core_count is the host's
\* detect_core_count() result.
cpu_metrics(core_count) ==
  IF core_count > 0 THEN <<"cpu.usage_percent", "cpu.core_count">>
  ELSE <<"cpu.usage_percent">>

\* total_bytes is what read_total_mem stored at create.
ram_metrics(total_bytes) ==
  IF total_bytes > 0
    THEN <<"ram.total_bytes", "ram.used_bytes", "ram.free_bytes", "ram.used_percent">>
    ELSE <<"ram.total_bytes", "ram.used_bytes", "ram.free_bytes">>

battery_metrics == <<"battery.percent", "battery.is_charging", "battery.status">>

\* A network collector that files its counters under another namespace.
network_metrics_foreign ==
  <<"network.interface", "battery.percent", "battery.is_charging",
    "network.rx_bytes_per_sec", "network.tx_bytes_per_sec">>

network_metrics ==
  <<"network.interface", "network.rx_bytes", "network.tx_bytes",
    "network.rx_bytes_per_sec", "network.tx_bytes_per_sec">>

\* Values fixed at create: they do not depend on the cached sample.
StaticMetricNames == {"cpu.core_count", "ram.total_bytes", "network.interface"}

MetricsOf(name, core_count) ==
  CASE name = "cpu" -> cpu_metrics(core_count)
    [] name = "ram" -> ram_metrics(1)
    [] name = "battery" -> battery_metrics
    [] name = "network" -> network_metrics

\* The text of a metric name before its first dot (names are atomic
\* strings here, so the prefixes are listed name by name).
NamespaceOf(name) ==
  CASE name \in {"cpu.usage_percent", "cpu.core_count"} -> "cpu"
    [] name \in {"ram.total_bytes", "ram.used_bytes", "ram.free_bytes",
                 "ram.used_percent"} -> "ram"
    [] name \in {"battery.percent", "battery.is_charging", "battery.status"} -> "battery"
    [] name \in {"network.interface", "network.rx_bytes", "network.tx_bytes",
                 "network.rx_bytes_per_sec", "network.tx_bytes_per_sec"} -> "network"
    [] name \in {"storage.path", "storage.total_bytes", "storage.used_bytes",
                 "storage.free_bytes", "storage.available_bytes",
                 "storage.used_percent"} -> "storage"
    [] name \in {"module." \o n \o ".error" :
                   n \in {"cpu", "ram", "battery", "network", "storage"}} -> "module"

\* One metric record of the builder; ns is kept beside the name.
Metric(name, value) == [ns |-> NamespaceOf(name), name |-> name, value |-> value]

RECURSIVE EmitAll(_, _, _)
EmitAll(names, sample, n) ==
  IF n = 0 THEN <<>>
  ELSE Append(EmitAll(names, sample, n - 1),
              Metric(names[n],
                     IF names[n] \in StaticMetricNames THEN 0 ELSE sample))

\* A collector that adds only its first metric when it serves its cache.
CollectorPoll_cachedshort(names, failRc, st, refresh_now, metrics, read, oom) ==
  LET query == refresh_now \/ ~st.has_data
      st2 == IF query THEN [st EXCEPT !.has_data = TRUE, !.sample = read] ELSE st
      full == IF query THEN Len(names) ELSE 1
      added == IF oom = 0 \/ oom > full THEN full ELSE oom - 1
  IN  IF query /\ read = 0
        THEN [rc |-> failRc, state |-> st, metrics |-> metrics, queried |-> TRUE]
        ELSE [rc |-> IF added = full THEN SYSMON_OK ELSE SYSMON_ERR_OUT_OF_MEMORY,
              state |-> st2,
              metrics |-> metrics \o EmitAll(names, st2.sample, added),
              queried |-> query]

\* The shape cpu_poll, ram_poll, battery_poll and network_poll share.
\*   read : 0 when reading the source fails, or the sample it returns
\*   oom  : 0, or the ordinal of the builder add that runs out of memory
\* Result: rc, the collector state, the builder's metrics, queried.
CollectorPoll(names, failRc, st, refresh_now, metrics, read, oom) ==
  LET query == refresh_now \/ ~st.has_data
      st2 == IF query THEN [st EXCEPT !.has_data = TRUE, !.sample = read] ELSE st
      added == IF oom = 0 THEN Len(names) ELSE oom - 1
  IN  IF query /\ read = 0
        THEN [rc |-> failRc, state |-> st, metrics |-> metrics, queried |-> TRUE]
        ELSE [rc |-> IF oom = 0 THEN SYSMON_OK ELSE SYSMON_ERR_OUT_OF_MEMORY,
              state |-> st2,
              metrics |-> metrics \o EmitAll(names, st2.sample, added),
              queried |-> query]

\* A cpu_poll that reads its source in every call.
cpu_poll_uncached(st, refresh_now, metrics, core_count, read, oom) ==
  CollectorPoll(cpu_metrics(core_count), SYSMON_ERR_NOT_SUPPORTED,
                st, TRUE, metrics, read, oom)

cpu_poll(st, refresh_now, metrics, core_count, read, oom) ==
  CollectorPoll(cpu_metrics(core_count), SYSMON_ERR_NOT_SUPPORTED,
                st, refresh_now, metrics, read, oom)

ram_poll(st, refresh_now, metrics, read, oom) ==
  CollectorPoll(ram_metrics(1), SYSMON_ERR_NOT_SUPPORTED,
                st, refresh_now, metrics, read, oom)

battery_poll(st, refresh_now, metrics, read, oom) ==
  CollectorPoll(battery_metrics, SYSMON_ERR_NOT_SUPPORTED,
                st, refresh_now, metrics, read, oom)

network_poll(st, refresh_now, metrics, read, oom) ==
  CollectorPoll(network_metrics, SYSMON_ERR_IO,
                st, refresh_now, metrics, read, oom)

\* inst->vtable->poll
VtablePoll(name, st, refresh_now, metrics, core_count, read, oom) ==
  CASE name = "cpu" -> cpu_poll(st, refresh_now, metrics, core_count, read, oom)
    [] name = "ram" -> ram_poll(st, refresh_now, metrics, read, oom)
    [] name = "battery" -> battery_poll(st, refresh_now, metrics, read, oom)
    [] name = "network" -> network_poll(st, refresh_now, metrics, read, oom)

\* ---------------------------------------------------------------------
\* Engine state
\* ---------------------------------------------------------------------

VARIABLES
  phase,         \* "none" before sysmon_create, "live", "failed", "destroyed"
  create_rc,     \* result of sysmon_create ("none" before the call)
  out_sysmon,    \* TRUE when *out_sysmon is a non-NULL handle
  scenario,      \* the ini file and host sysmon_create ran against
  interval_ms,   \* sysmon->config.interval_ms
  modules,       \* sysmon->modules[1..module_count]
  last_error,    \* sysmon->last_error ("(null)" for NULL)
  create_log,    \* per module: result of its vtable->create, "none" if not called
  destroy_calls, \* per module: calls of its vtable->destroy
  clock,         \* largest CLOCK_MONOTONIC reading so far, in ms
  round,         \* what the last sysmon_poll call did and returned
  hist,          \* per module: the last successful refresh
  coll,          \* a collector instance driven through its vtable alone
  snap,          \* a snapshot builder and its snapshot, used on their own
  ini_call,      \* one call of sysmon_ini_get_u32 or sysmon_ini_get_bool
  table,         \* the static table of sysmon_builtin_modules and two threads
  null_destroys  \* calls of sysmon_destroy with a NULL handle

vars ==
  <<phase, create_rc, out_sysmon, scenario, interval_ms, modules, last_error,
    create_log, destroy_calls, clock, round, hist, coll, snap, ini_call, table,
    null_destroys>>

\* calloc'ed sysmon_module_instance_t
ZeroInstance ==
  [vtable |-> "NULL", state |-> NoState, enabled |-> FALSE,
   refresh_ms |-> 0, last_refresh_ms |-> 0]

\* sysmon_set_error(target, message): the copy is NULL when sysmon_strdup
\* cannot allocate.
sysmon_set_error(message, copy_ok) == IF copy_ok THEN message ELSE "(null)"

\* ---------------------------------------------------------------------
\* Inputs of sysmon_create: ini files and hosts
\* ---------------------------------------------------------------------

HostAll == [cpu |-> SYSMON_OK, ram |-> SYSMON_OK, battery |-> SYSMON_OK, network |-> SYSMON_OK]

\* no battery and no usable network interface
HostBare ==
  [cpu |-> SYSMON_OK, ram |-> SYSMON_OK,
   battery |-> SYSMON_ERR_NOT_SUPPORTED, network |-> SYSMON_ERR_NOT_SUPPORTED]

\* only the cpu source is present
HostCpuOnly == [HostBare EXCEPT !.ram = SYSMON_ERR_NOT_SUPPORTED]

\* no /proc/meminfo, no battery
HostNoRamBat ==
  [cpu |-> SYSMON_OK, ram |-> SYSMON_ERR_NOT_SUPPORTED,
   battery |-> SYSMON_ERR_NOT_SUPPORTED, network |-> SYSMON_OK]

\* ram_create's calloc fails
HostRamOom == [HostBare EXCEPT !.ram = SYSMON_ERR_OUT_OF_MEMORY]

\* network_create's calloc fails, after battery was demoted
HostNetOom == [HostBare EXCEPT !.network = SYSMON_ERR_OUT_OF_MEMORY]

\* cpu_create's calloc fails
HostCpuOom == [HostBare EXCEPT !.cpu = SYSMON_ERR_OUT_OF_MEMORY]

Off(name, v) == <<SectionOf(name), "enabled", v>>
Refresh(name, v) == <<SectionOf(name), "refresh_ms", v>>

Scenario(ini, load, host, cores) ==
  [ini |-> ini, load |-> load, host |-> host, core_count |-> cores, steady |-> {}]

\* The scenario on a host where the sources of the modules in names give
\* the same reading at every read (an idle counter, a fixed total).
Steady(sc, names) == [sc EXCEPT !.steady = names]

\* A scenario together with the outcomes of the two callocs of sysmon_create.
Attempt(sc, engine_alloc, modules_alloc) ==
  [ini |-> sc.ini, load |-> sc.load, host |-> sc.host, core_count |-> sc.core_count,
   steady |-> sc.steady, engine_alloc |-> engine_alloc, modules_alloc |-> modules_alloc]

Scenarios ==
  { \* defaults on a host with cpu only: refresh_ms = 0
    Scenario(<<>>, SYSMON_OK, HostCpuOnly, 4),
    \* cpu cached for 1 ms, ram refreshed every round
    Steady(Scenario(<<Refresh("cpu", Str_1), <<"sysmon", "interval_ms", Str_2>>>>,
                    SYSMON_OK, HostBare, 0), {"ram"}),
    \* battery only, cached for 2 ms
    Scenario(<<Off("cpu", Str_0), Off("ram", Str_false), Off("network", Str_No),
               Refresh("battery", Str_plus2)>>, SYSMON_OK, HostAll, 4),
    \* network only, refresh_ms = 1 (the first entry of a key wins); an
    \* unknown enabled word keeps the default
    Scenario(<<Off("cpu", Str_OFF), Off("network", Str_maybe),
               Refresh("network", Str_1), Refresh("network", Str_abc)>>,
             SYSMON_OK, HostNoRamBat, 4),
    \* a negative refresh_ms in the section of a disabled module
    Scenario(<<Off("cpu", Str_0), Refresh("cpu", Str_minus18446744073709551615)>>,
             SYSMON_OK, HostCpuOnly, 4),
    \* every module disabled
    Scenario(<<Off("cpu", Str_0), Off("ram", Str_0), Off("battery", Str_0),
               Off("network", Str_0)>>, SYSMON_OK, HostAll, 4),
    \* invalid refresh_ms values, in enabled and in disabled sections
    Scenario(<<Refresh("cpu", Str_abc)>>, SYSMON_OK, HostAll, 4),
    Scenario(<<Refresh("ram", Str_2x)>>, SYSMON_OK, HostAll, 4),
    Scenario(<<Off("battery", Str_0), Refresh("battery", Str_4294967296)>>,
             SYSMON_OK, HostAll, 4),
    Scenario(<<Refresh("network", Str_minus1)>>, SYSMON_OK, HostBare, 4),
    Scenario(<<Off("ram", Str_0), Refresh("network", Str_18446744073709551616)>>,
             SYSMON_OK, HostAll, 4),
    Scenario(<<Refresh("ram", Str_empty), Refresh("battery", Str_abc)>>,
             SYSMON_OK, HostRamOom, 4),
    \* create failures of the collectors
    Scenario(<<>>, SYSMON_OK, HostRamOom, 4),
    Scenario(<<>>, SYSMON_OK, HostNetOom, 4),
    Scenario(<<Off("cpu", Str_Yes)>>, SYSMON_OK, HostCpuOom, 4),
    \* invalid global interval, unreadable or malformed ini file
    Scenario(<<<<"sysmon", "interval_ms", Str_0>>>>, SYSMON_OK, HostBare, 4),
    Scenario(<<<<"sysmon", "interval_ms", Str_abc>>>>, SYSMON_OK, HostBare, 4),
    \* interval_ms values the Engine is built with or rejects, every module
    \* disabled
    Scenario(<<<<"sysmon", "interval_ms", Str_2>>,
               Off("cpu", Str_0), Off("ram", Str_0), Off("battery", Str_0),
               Off("network", Str_0)>>, SYSMON_OK, HostAll, 4),
    Scenario(<<<<"sysmon", "interval_ms", Str_empty>>,
               Off("cpu", Str_0), Off("ram", Str_0), Off("battery", Str_0),
               Off("network", Str_0)>>, SYSMON_OK, HostAll, 4),
    Scenario(<<<<"sysmon", "interval_ms", Str_minus18446744073709551615>>,
               Off("cpu", Str_0), Off("ram", Str_0), Off("battery", Str_0),
               Off("network", Str_0)>>, SYSMON_OK, HostAll, 4),
    Scenario(<<<<"sysmon", "interval_ms", Str_4294967296>>>>, SYSMON_OK, HostBare, 4),
    Scenario(<<<<"sysmon", "interval_ms", Str_minus1>>>>, SYSMON_OK, HostBare, 4),
    Scenario(<<>>, SYSMON_ERR_IO, HostBare, 4),
    Scenario(<<>>, SYSMON_ERR_PARSE, HostBare, 4),
    Scenario(<<>>, SYSMON_ERR_OUT_OF_MEMORY, HostBare, 4) }

\* ---------------------------------------------------------------------
\* sysmon_create / init_modules / sysmon_destroy
\* ---------------------------------------------------------------------

\* init_modules with NotSupported handled like every other failure.
create_outcome_abort(inst, rc) ==
  IF rc # SYSMON_OK
    THEN [go_on |-> FALSE, inst |-> inst]
    ELSE [go_on |-> TRUE, inst |-> [inst EXCEPT !.state = FreshState]]

\* What init_modules does with the result rc of inst->vtable->create:
\* the instance it leaves and whether the loop goes on.
create_outcome(inst, rc) ==
  IF rc = SYSMON_ERR_NOT_SUPPORTED
    THEN [go_on |-> TRUE, inst |-> [inst EXCEPT !.enabled = FALSE]]
  ELSE IF rc # SYSMON_OK
    THEN [go_on |-> FALSE, inst |-> inst]
  ELSE [go_on |-> TRUE, inst |-> [inst EXCEPT !.state = FreshState]]

\* The loop of init_modules from module i on.  Result: rc, the module
\* array, the create log and the message passed to sysmon_set_error.
RECURSIVE init_modules_from(_, _, _, _, _)
init_modules_from(i, mods, log, ini, host) ==
  IF i > BuiltinCount
    THEN [rc |-> SYSMON_OK, modules |-> mods, log |-> log, err |-> "(null)"]
    ELSE
      LET name == sysmon_builtin_modules[i]
          section == SectionOf(name)
          enabled == sysmon_ini_get_bool(ini, section, "enabled", TRUE)
          r == sysmon_ini_get_u32(ini, section, "refresh_ms", 0)
          inst == [vtable |-> name, state |-> NoState, enabled |-> enabled,
                   refresh_ms |-> r.value, last_refresh_ms |-> 0]
          rc == host[name]
          co == create_outcome(inst, rc)
      IN  IF ~r.ok
            THEN [rc |-> SYSMON_ERR_PARSE, modules |-> [mods EXCEPT ![i] = inst],
                  log |-> log, err |-> "invalid refresh_ms (must be uint32)"]
          ELSE IF ~inst.enabled
            THEN init_modules_from(i + 1, [mods EXCEPT ![i] = inst], log, ini, host)
          ELSE IF co.go_on
            THEN init_modules_from(i + 1, [mods EXCEPT ![i] = co.inst],
                                   [log EXCEPT ![i] = rc], ini, host)
          ELSE [rc |-> rc, modules |-> [mods EXCEPT ![i] = co.inst],
                log |-> [log EXCEPT ![i] = rc], err |-> "module create failed"]

\* modules_alloc: whether calloc of the module array succeeds
init_modules(ini, host, modules_alloc) ==
  IF BuiltinCount = 0
    THEN [rc |-> SYSMON_ERR_INTERNAL, modules |-> <<>>,
          log |-> [i \in ModuleIdx |-> "none"], err |-> "(null)"]
  ELSE IF ~modules_alloc
    THEN [rc |-> SYSMON_ERR_OUT_OF_MEMORY, modules |-> <<>>,
          log |-> [i \in ModuleIdx |-> "none"], err |-> "(null)"]
  ELSE init_modules_from(1, [i \in ModuleIdx |-> ZeroInstance],
                         [i \in ModuleIdx |-> "none"], ini, host)

\* A destroy loop that releases nothing.
DestroyModules_leak(mods, calls) == calls

\* The destroy loop of sysmon_destroy: the new per-module call counts.
DestroyModules(mods, calls) ==
  [i \in ModuleIdx |->
     IF i \in DOMAIN mods /\ mods[i].state.alloc /\ mods[i].vtable # "NULL"
       THEN calls[i] + 1 ELSE calls[i]]

NullSnapshot == [null |-> TRUE, metrics |-> <<>>]

NoRound ==
  [called |-> FALSE, now |-> 0, rc |-> "none", snapshot |-> NullSnapshot,
   polled |-> {}, due |-> {}, queried |-> {}, mrc |-> [i \in ModuleIdx |-> "none"],
   built |-> 0, freed |-> 0, set_error |-> FALSE, retry |-> {},
   prev |-> [i \in ModuleIdx |-> -1],
   seen |-> [i \in ModuleIdx |-> -1], added |-> [i \in ModuleIdx |-> <<>>]]

NoHist ==
  [ref |-> [i \in ModuleIdx |-> [t |-> -1, sample |-> 0]],
   names |-> [i \in ModuleIdx |-> <<>>]]

\* No collector instance outside an Engine.
NoCollector == [kind |-> "none"]

\* No Engine: sysmon_create has not been called.
EngineInit ==
  /\ phase = "none"
  /\ create_rc = "none"
  /\ out_sysmon = FALSE
  /\ scenario = Attempt(Scenario(<<>>, SYSMON_OK, HostBare, 0), TRUE, TRUE)
  /\ interval_ms = 0
  /\ modules = <<>>
  /\ last_error = "(null)"
  /\ create_log = [i \in ModuleIdx |-> "none"]
  /\ destroy_calls = [i \in ModuleIdx |-> 0]
  /\ clock = 0
  /\ round = NoRound
  /\ hist = NoHist
  /\ null_destroys = 0

\* The NULL metric pointer.
NoMetric == [ns |-> "", name |-> "", value |-> 0]

\* The result of no accessor call.
NoQuery ==
  [asked |-> FALSE, index |-> 0, name |-> NULL, count |-> 0,
   at |-> NoMetric, found |-> NoMetric]

\* No snapshot builder outside an Engine.
NoBuilder ==
  [phase |-> "none", builder |-> [metrics |-> <<>>, capacity |-> 0],
   snapshot |-> NullSnapshot, added |-> <<>>, clean |-> TRUE, rc |-> "none",
   q |-> NoQuery]

\* No ini getter called on its own.
NoIniCall == [fn |-> "none"]

\* No thread in sysmon_create.
NoThreads == [kind |-> "none"]

\* Nothing besides the Engine.
Alone == snap = NoBuilder /\ ini_call = NoIniCall /\ table = NoThreads

Init == EngineInit /\ coll = NoCollector /\ Alone

\* Outcome of sysmon_create as [rc, modules, log, interval_ms].
\*   engine_alloc, modules_alloc: whether the two callocs succeed
CreateResult(sc, engine_alloc, modules_alloc) ==
  LET cfg == sysmon_config_load_from_ini(sc.ini)
      im == init_modules(sc.ini, sc.host, modules_alloc)
      none == [i \in ModuleIdx |-> "none"]
  IN  IF ~engine_alloc
        THEN [rc |-> SYSMON_ERR_OUT_OF_MEMORY, modules |-> <<>>, log |-> none,
              interval_ms |-> 0]
      ELSE IF sc.load # SYSMON_OK
        THEN [rc |-> sc.load, modules |-> <<>>, log |-> none, interval_ms |-> 0]
      ELSE IF cfg.rc # SYSMON_OK
        THEN [rc |-> cfg.rc, modules |-> <<>>, log |-> none,
              interval_ms |-> cfg.interval_ms]
      ELSE [rc |-> im.rc, modules |-> im.modules, log |-> im.log,
            interval_ms |-> cfg.interval_ms]

sysmon_create ==
  /\ phase = "none"
  /\ \E sc \in Scenarios, engine_alloc \in BOOLEAN, modules_alloc \in BOOLEAN :
       LET res == CreateResult(sc, engine_alloc, modules_alloc)
       IN  /\ scenario' = Attempt(sc, engine_alloc, modules_alloc)
           /\ create_rc' = res.rc
           /\ create_log' = res.log
           /\ modules' = res.modules
           /\ interval_ms' = res.interval_ms
           /\ IF res.rc = SYSMON_OK
                THEN /\ phase' = "live"
                     /\ out_sysmon' = TRUE
                     /\ destroy_calls' = destroy_calls
                ELSE \* sysmon_destroy(sysmon); *out_sysmon stays NULL
                     /\ phase' = "failed"
                     /\ out_sysmon' = FALSE
                     /\ destroy_calls' = DestroyModules(res.modules, destroy_calls)
  /\ UNCHANGED <<last_error, clock, round, hist, coll, snap, ini_call, table,
                 null_destroys>>

\* A sysmon_destroy that does not test its handle.
DestroyHandle_unchecked(handle, mods, calls) == DestroyModules(mods, calls)

\* sysmon_destroy(sysmon): returns at once when the handle is NULL
\* (handle = FALSE), else runs the destroy loop.
DestroyHandle(handle, mods, calls) ==
  IF ~handle THEN calls ELSE DestroyModules(mods, calls)

\* The caller destroys its Engine, or calls sysmon_destroy on the NULL
\* handle it is left with after a failed create or after a destroy.
sysmon_destroy ==
  /\ \/ phase = "live"
     \/ phase \in {"failed", "destroyed"} /\ null_destroys = 0
  /\ phase' = IF phase = "live" THEN "destroyed" ELSE phase
  /\ null_destroys' = IF phase = "live" THEN null_destroys ELSE null_destroys + 1
  /\ destroy_calls' = DestroyHandle(phase = "live", modules, destroy_calls)
  /\ UNCHANGED <<create_rc, out_sysmon, scenario, interval_ms, modules, last_error,
                 create_log, clock, round, hist, coll, snap, ini_call, table>>

\* ---------------------------------------------------------------------
\* sysmon_poll
\* ---------------------------------------------------------------------

\* now_ms - inst->last_refresh_ms >= inst->refresh_ms in uint64_t: when
\* now_ms < last_refresh_ms the difference wraps to 2^64 - (last - now),
\* which exceeds every uint32 refresh_ms for the clock values modelled.
ElapsedAtLeast(now_ms, last_refresh, refresh) ==
  IF now_ms >= last_refresh THEN now_ms - last_refresh >= refresh ELSE TRUE

\* refresh_now of sysmon_poll
RefreshNow(inst, now_ms) ==
  \/ inst.refresh_ms = 0
  \/ inst.last_refresh_ms = 0
  \/ ElapsedAtLeast(now_ms, inst.last_refresh_ms, inst.refresh_ms)

\* How the add_string call of add_module_error can end.
ErrAdds == {"ok", "nometric", "nullstr"}

\* add_module_error: the result of sysmon_snapshot_builder_add_string is
\* ignored.  "nometric": add_common failed, nothing is appended;
\* "nullstr": the record is appended and the copy of the message failed
\* (value -1 stands for value.str == NULL, 0 for the copied message).
add_module_error(metrics, module_name, err_add) ==
  CASE err_add = "ok" ->
         Append(metrics, Metric(ErrorMetricName(module_name), 0))
    [] err_add = "nullstr" ->
         Append(metrics, Metric(ErrorMetricName(module_name), -1))
    [] err_add = "nometric" -> metrics

\* A loop that polls every instance of the registry, enabled or not.
ModuleSkipped_flagless(inst) == inst.vtable = "NULL"

\* The loop of sysmon_poll passes over this instance without polling it.
\* (Every vtable of the registry has a poll function.)
ModuleSkipped(inst) == ~inst.enabled \/ inst.vtable = "NULL"

\* The names of the metrics from index n + 1 on.
NamesFrom(metrics, n) == [k \in 1..(Len(metrics) - n) |-> metrics[n + k].name]

\* A timestamp stored after every poll whose refresh was due, failed or not.
last_refresh_after_attempt(last_refresh, mrc, refresh_now, now_ms) ==
  IF refresh_now THEN now_ms ELSE last_refresh

\* inst->last_refresh_ms after the module's poll returned mrc:
\* if (mrc == SYSMON_OK) { if (refresh_now) inst->last_refresh_ms = now_ms; }
last_refresh_after(last_refresh, mrc, refresh_now, now_ms) ==
  IF mrc = SYSMON_OK /\ refresh_now THEN now_ms ELSE last_refresh

\* The loop body with the timestamp stored after every successful poll.
poll_module_stamping(acc, i, now_ms, refresh_now, r, err_add) ==
  [acc EXCEPT
     !.modules[i].state = r.state,
     !.modules[i].last_refresh_ms = IF r.rc = SYSMON_OK THEN now_ms ELSE @,
     !.metrics = IF r.rc = SYSMON_OK \/ r.rc = SYSMON_ERR_OUT_OF_MEMORY THEN r.metrics
                 ELSE add_module_error(r.metrics, acc.modules[i].vtable, err_add),
     !.polled = @ \cup {i},
     !.due = IF refresh_now THEN @ \cup {i} ELSE @,
     !.queried = IF r.queried THEN @ \cup {i} ELSE @,
     !.mrc[i] = r.rc,
     !.seen[i] = now_ms,
     !.added[i] = NamesFrom(r.metrics, Len(acc.metrics)),
     !.aborted = r.rc = SYSMON_ERR_OUT_OF_MEMORY]

\* One iteration of the module loop of sysmon_poll for an enabled module
\* i, given refresh_now and the result r of its vtable->poll.  seen and
\* added record the now_ms handed to the poll and the names of the metrics
\* the iteration appended to the builder.
poll_module(acc, i, now_ms, refresh_now, r, err_add) ==
  LET after == IF r.rc = SYSMON_OK \/ r.rc = SYSMON_ERR_OUT_OF_MEMORY THEN r.metrics
               ELSE add_module_error(r.metrics, acc.modules[i].vtable, err_add)
  IN  [modules |->
         [acc.modules EXCEPT
            ![i].state = r.state,
            ![i].last_refresh_ms = last_refresh_after(@, r.rc, refresh_now, now_ms)],
       metrics |-> after,
       polled |-> acc.polled \cup {i},
       due |-> IF refresh_now THEN acc.due \cup {i} ELSE acc.due,
       queried |-> IF r.queried THEN acc.queried \cup {i} ELSE acc.queried,
       mrc |-> [acc.mrc EXCEPT ![i] = r.rc],
       seen |-> [acc.seen EXCEPT ![i] = now_ms],
       added |-> [acc.added EXCEPT ![i] = NamesFrom(after, Len(acc.metrics))],
       aborted |-> r.rc = SYSMON_ERR_OUT_OF_MEMORY]

\* A loop body that reads the clock again for every module after the first.
poll_instance_rereading(acc, i, in, refresh_now, core_count) ==
  poll_module(acc, i, IF acc.polled = {} THEN in.now ELSE in.now + 1, refresh_now,
              VtablePoll(acc.modules[i].vtable, acc.modules[i].state, refresh_now,
                         acc.metrics, core_count, in.out[i].read,
                         IF in.oom_mod = i THEN in.oom_k ELSE 0),
              in.out[i].err_add)

poll_instance(acc, i, in, refresh_now, core_count) ==
  poll_module(acc, i, in.now, refresh_now,
              VtablePoll(acc.modules[i].vtable, acc.modules[i].state, refresh_now,
                         acc.metrics, core_count, in.out[i].read,
                         IF in.oom_mod = i THEN in.oom_k ELSE 0),
              in.out[i].err_add)

\* The module loop of sysmon_poll from module i on.
\*   acc : modules, the builder's metrics, and what happened so far
\*   in  : now, per-module source outcome, the module whose add runs out
\*         of memory (0: none) and the ordinal of that add
RECURSIVE poll_from(_, _, _, _)
poll_from(i, acc, in, core_count) ==
  IF i > Len(acc.modules) \/ acc.aborted THEN acc
  ELSE IF ModuleSkipped(acc.modules[i])
    THEN poll_from(i + 1, acc, in, core_count)
  ELSE poll_from(i + 1,
                 poll_instance(acc, i, in, RefreshNow(acc.modules[i], in.now), core_count),
                 in, core_count)

\* The collector queries its source in this call.
WillQuery(inst, now_ms) == RefreshNow(inst, now_ms) \/ ~inst.state.has_data

\* Readings the source of a module can give.
Readings(name, steady) == IF name \in steady THEN {1} ELSE Samples

\* Source outcomes of module i that the round can tell apart: none when
\* the module is not polled, does not query, or comes after the module
\* that aborts the round; the aborting module itself reads successfully.
ModuleOutcomes(mods, i, now_ms, oom_mod, steady) ==
  IF ~mods[i].enabled \/ ~WillQuery(mods[i], now_ms) \/ (oom_mod # 0 /\ i > oom_mod)
    THEN {[read |-> 1, err_add |-> "ok"]}
  ELSE IF i = oom_mod
    THEN {[read |-> v, err_add |-> "ok"] : v \in Readings(mods[i].vtable, steady)}
  ELSE {[read |-> v, err_add |-> "ok"] : v \in Readings(mods[i].vtable, steady)}
       \cup {[read |-> 0, err_add |-> e] : e \in ErrAdds}

\* Ordinals of the add that fails in the module that runs out of memory:
\* its first or its last one.
OomOrdinals(mods, m, core_count) ==
  IF m = 0 THEN {0} ELSE {1, Len(MetricsOf(mods[m].vtable, core_count))}

\* sysmon_now_ms: readings of CLOCK_MONOTONIC never decrease.  The value
\* 0 is also what sysmon_now_ms returns when clock_gettime fails.
NowChoices == clock..MaxNow

\* History kept for the properties: per module the time and sample of its
\* last successful refresh, and the metric names of its first successful
\* poll (<<>> until then).
HistAfter(h, acc, now_ms) ==
  [ref |-> [i \in ModuleIdx |->
              IF acc.mrc[i] = SYSMON_OK /\ i \in acc.due
                THEN [t |-> now_ms, sample |-> acc.modules[i].state.sample]
                ELSE h.ref[i]],
   names |-> [i \in ModuleIdx |->
                IF acc.mrc[i] = SYSMON_OK /\ h.names[i] = <<>>
                  THEN acc.added[i] ELSE h.names[i]]]

\* Per module the time of its last successful refresh, -1 when none.
RefreshTimes(h) == [i \in ModuleIdx |-> h.ref[i].t]

\* A finalize that hands the metrics over last-inserted first.
sysmon_snapshot_builder_finalize_reversing(metrics, alloc) ==
  IF ~alloc THEN [rc |-> SYSMON_ERR_OUT_OF_MEMORY, snapshot |-> NullSnapshot]
  ELSE [rc |-> SYSMON_OK,
        snapshot |-> [null |-> FALSE,
                      metrics |-> [k \in 1..Len(metrics) |->
                                     metrics[Len(metrics) + 1 - k]]]]

\* sysmon_snapshot_builder_finalize: the snapshot takes over the builder's
\* metric array, count entries from index 0; alloc is the calloc of the
\* snapshot.
sysmon_snapshot_builder_finalize(metrics, alloc) ==
  IF ~alloc THEN [rc |-> SYSMON_ERR_OUT_OF_MEMORY, snapshot |-> NullSnapshot]
  ELSE [rc |-> SYSMON_OK,
        snapshot |-> [null |-> FALSE,
                      metrics |-> [k \in 1..Len(metrics) |-> metrics[k]]]]

\* sysmon_snapshot_metric_at (index from 0); NoMetric stands for NULL.
sysmon_snapshot_metric_at(snapshot, index) ==
  IF snapshot.null \/ index >= Len(snapshot.metrics) THEN NoMetric
  ELSE snapshot.metrics[index + 1]

\* The modules whose poll failed in round r while their refresh was due.
FailedDue(r) == {i \in r.due : r.mrc[i] \notin {"none", SYSMON_OK}}

\* The modules of FailedDue(r) that have a refresh interval and had been
\* refreshed at a non-zero time before round r: their cache interval is
\* the one a failed refresh could cut short or restart.
FailedInInterval(r, mods) ==
  {i \in FailedDue(r) : mods[i].refresh_ms > 0 /\ r.prev[i] > 0}

\* What the call did and returned; ok: the round was finalized; prev: the
\* refresh times before the call; retry: FailedInInterval of the round
\* before, filled in by sysmon_poll.
\* A poll that stores a message for every module that failed.
last_error_after_failure(last, mrc, copy_ok) ==
  IF \E i \in ModuleIdx : mrc[i] \notin {"none", SYSMON_OK}
    THEN sysmon_set_error("out of memory", copy_ok)
    ELSE last

\* sysmon->last_error after the module loop of sysmon_poll: written only in
\* the branch of a module result SYSMON_ERR_OUT_OF_MEMORY.
last_error_after(last, mrc, copy_ok) ==
  IF \E i \in ModuleIdx : mrc[i] = SYSMON_ERR_OUT_OF_MEMORY
    THEN sysmon_set_error("out of memory", copy_ok)
    ELSE last

\* A finalize that leaves the array with the builder after handing it over.
builder_left_shared(metrics, ok) == metrics

\* The records still held by the builder after the finalize call of the
\* round: none once the snapshot has taken the array, all when the calloc of
\* the snapshot failed.
builder_left_by_finalize(metrics, ok) == IF ok THEN <<>> ELSE metrics

\* sysmon_snapshot_builder_destroy: the number of records whose name, unit
\* and string value it frees, builder->count of them.
sysmon_snapshot_builder_destroy(metrics) == Len(metrics)

RoundOf(acc, now_ms, ok, prev) ==
  [called |-> TRUE, now |-> now_ms,
   rc |-> IF ok THEN SYSMON_OK ELSE SYSMON_ERR_OUT_OF_MEMORY,
   snapshot |-> sysmon_snapshot_builder_finalize(acc.metrics, ok).snapshot,
   polled |-> acc.polled, due |-> acc.due, queried |-> acc.queried, mrc |-> acc.mrc,
   built |-> Len(acc.metrics),
   freed |-> sysmon_snapshot_builder_destroy(
               IF acc.aborted THEN acc.metrics
                              ELSE builder_left_by_finalize(acc.metrics, ok)),
   set_error |-> acc.aborted, retry |-> {},
   prev |-> prev, seen |-> acc.seen, added |-> acc.added]

sysmon_poll ==
  /\ phase = "live"
  /\ \E now_ms \in NowChoices, builder_alloc \in BOOLEAN :
       /\ clock' = IF now_ms > clock THEN now_ms ELSE clock
       /\ IF ~builder_alloc
            THEN \* sysmon_snapshot_builder_create fails
                 /\ round' = [NoRound EXCEPT !.called = TRUE, !.now = now_ms,
                                !.rc = SYSMON_ERR_OUT_OF_MEMORY,
                                !.retry = FailedInInterval(round, modules),
                                !.prev = RefreshTimes(hist)]
                 /\ UNCHANGED <<modules, last_error, hist>>
            ELSE
              \E oom_mod \in {0} \cup {i \in ModuleIdx : modules[i].enabled},
                 late_alloc \in BOOLEAN :
                \E o1 \in ModuleOutcomes(modules, 1, now_ms, oom_mod, scenario.steady),
                   o2 \in ModuleOutcomes(modules, 2, now_ms, oom_mod, scenario.steady),
                   o3 \in ModuleOutcomes(modules, 3, now_ms, oom_mod, scenario.steady),
                   o4 \in ModuleOutcomes(modules, 4, now_ms, oom_mod, scenario.steady),
                   oom_k \in OomOrdinals(modules, oom_mod, scenario.core_count) :
                  \E acc \in {poll_from(1,
                               [modules |-> modules, metrics |-> <<>>, polled |-> {},
                                due |-> {}, queried |-> {},
                                mrc |-> [i \in ModuleIdx |-> "none"],
                                seen |-> [i \in ModuleIdx |-> -1],
                                added |-> [i \in ModuleIdx |-> <<>>],
                                aborted |-> FALSE],
                               [now |-> now_ms, out |-> <<o1, o2, o3, o4>>,
                                oom_mod |-> oom_mod, oom_k |-> oom_k],
                               scenario.core_count)} :
                    \* late_alloc: the one allocation after the loop, the
                    \* message copy of sysmon_set_error on abort or the
                    \* calloc of the snapshot in finalize
                    /\ modules' = acc.modules
                    /\ hist' = HistAfter(hist, acc, now_ms)
                    /\ last_error' = last_error_after(last_error, acc.mrc, late_alloc)
                    /\ round' =
                         [RoundOf(acc, now_ms, ~acc.aborted /\ late_alloc,
                                  RefreshTimes(hist))
                            EXCEPT !.retry = FailedInInterval(round, modules)]
  /\ UNCHANGED <<phase, create_rc, out_sysmon, scenario, interval_ms,
                 create_log, destroy_calls, coll, snap, ini_call, table,
                 null_destroys>>

Next == sysmon_create \/ sysmon_poll \/ sysmon_destroy

Spec == Init /\ [][Next]_vars

\* ---------------------------------------------------------------------
\* Properties
\* ---------------------------------------------------------------------

NameOf(i) == sysmon_builtin_modules[i]

\* A sysmon_poll call has returned on an Engine that was constructed.
Polled == create_rc = SYSMON_OK /\ round.called

\* Some metric of the snapshot lies in namespace ns.
HasNamespace(snapshot, ns) ==
  \E k \in 1..Len(snapshot.metrics) : snapshot.metrics[k].ns = ns

\* The snapshot has a metric called name.
HasMetric(snapshot, name) ==
  \E k \in 1..Len(snapshot.metrics) : snapshot.metrics[k].name = name

\* enabled=false-like value in the module's section of the ini
ConfigDisabled(i) ==
  ~sysmon_ini_get_bool(scenario.ini, SectionOf(NameOf(i)), "enabled", TRUE)

\* the module was demoted when its create reported NotSupported
Demoted(i) == create_log[i] = SYSMON_ERR_NOT_SUPPORTED

\* the module's poll returned an error other than OutOfMemory in the round
FailedInRound(i) ==
  round.mrc[i] \notin {"none", SYSMON_OK, SYSMON_ERR_OUT_OF_MEMORY}

\* The text is an optional sign followed by one or more decimal digits.
NumericText(v) ==
  LET body == IF v # <<>> /\ v[1] \in {"+", "-"} THEN Tail(v) ELSE v
  IN  body # <<>> /\ \A k \in 1..Len(body) : isdigit(body[k])

\* The number a numeric text denotes is below 0 or above 2^32 - 1.
OutsideUint32(v) ==
  LET body == IF v[1] \in {"+", "-"} THEN Tail(v) ELSE v
      mag == StripZeros([k \in 1..Len(body) |-> DigitVal(body[k])])
  IN  \/ v[1] = "-" /\ mag # <<>>
      \/ DecCmp(mag, U32MaxDigits) > 0

\* The refresh_ms value of module i in the ini (NULL when absent).
RefreshText(i) == sysmon_ini_get(scenario.ini, SectionOf(NameOf(i)), "refresh_ms")

\* refresh_ms of module i is absent, empty or a uint32.
RefreshTextValid(i) ==
  \/ RefreshText(i) \in {NULL, <<>>}
  \/ NumericText(RefreshText(i)) /\ ~OutsideUint32(RefreshText(i))

\* C1: a module with refresh_ms = r > 0 re-queries its source (and
\* recomputes its values) in at most one round per r ms; in a round less
\* than r ms after its last successful refresh it reports the values of
\* that refresh without reading its source; and a module with
\* refresh_ms = 0 refreshes in every round that polls it.  round.prev[i]
\* is the time of the module's last successful refresh before the round.
C1_RefreshCadence ==
  Polled =>
    \A i \in ModuleIdx :
      LET r == modules[i].refresh_ms
          t == round.prev[i]
      IN  /\ (r > 0 /\ t >= 0 /\ round.mrc[i] = SYSMON_OK /\ i \in round.queried)
               => round.now - t >= r
          /\ (r > 0 /\ t >= 0 /\ round.now - t < r /\ round.mrc[i] = SYSMON_OK)
               => /\ i \notin round.queried
                  /\ modules[i].state.sample = hist.ref[i].sample
                  /\ hist.ref[i].t = t
          /\ (r = 0 /\ i \in round.polled) => i \in round.queried

\* The cadence that does hold: C1 for refreshes at a non-zero clock value.
C1_CadenceAfterNonZeroRefresh ==
  Polled =>
    \A i \in ModuleIdx :
      LET r == modules[i].refresh_ms
          t == round.prev[i]
      IN  /\ (r > 0 /\ t > 0 /\ round.mrc[i] = SYSMON_OK /\ i \in round.queried)
               => round.now - t >= r
          /\ (r > 0 /\ t > 0 /\ round.now - t < r /\ round.mrc[i] = SYSMON_OK)
               => /\ i \notin round.queried
                  /\ modules[i].state.sample = hist.ref[i].sample
                  /\ hist.ref[i].t = t
          /\ (r = 0 /\ i \in round.polled) => i \in round.queried

\* C2: a module disabled by its configuration or demoted at creation is
\* never polled, and no snapshot holds a metric of its namespace or a
\* module.<name>.error metric for it.
C2_DisabledNeverPolled ==
  Polled =>
    \A i \in ModuleIdx :
      (ConfigDisabled(i) \/ Demoted(i)) =>
        /\ i \notin round.polled
        /\ i \notin round.queried
        /\ ~HasNamespace(round.snapshot, NameOf(i))
        /\ ~HasMetric(round.snapshot, ErrorMetricName(NameOf(i)))

\* A round returned metrics while one module was disabled by the ini and
\* another was demoted by NotSupported.
C2_Witness ==
  /\ Polled
  /\ round.rc = SYSMON_OK
  /\ Len(round.snapshot.metrics) > 0
  /\ \E i, j \in ModuleIdx : ConfigDisabled(i) /\ Demoted(j)

\* C3: when an enabled module's poll fails with an error other than
\* OutOfMemory, a round that returns OK has the module.<name>.error metric
\* of that module and no metric of the module's namespace, and every later
\* enabled module is still polled (unless the round is aborted in between).
C3_PollErrorIsolated ==
  Polled =>
    \A i \in ModuleIdx :
      FailedInRound(i) =>
        /\ round.rc = SYSMON_OK =>
             /\ ~round.snapshot.null
             /\ HasMetric(round.snapshot, ErrorMetricName(NameOf(i)))
             /\ ~HasNamespace(round.snapshot, NameOf(i))
        /\ \A j \in ModuleIdx :
             (j > i /\ modules[j].enabled) =>
               \/ j \in round.polled
               \/ \E k \in ModuleIdx :
                    i < k /\ k < j /\ round.mrc[k] = SYSMON_ERR_OUT_OF_MEMORY

\* C4: when a module's poll returns OutOfMemory the round is aborted: no
\* later module is polled, the metrics built so far are released, the
\* result is OutOfMemory, the snapshot is NULL and the last error is set.
C4_OomAbortsRound ==
  Polled =>
    \A i \in ModuleIdx :
      round.mrc[i] = SYSMON_ERR_OUT_OF_MEMORY =>
        /\ \A j \in ModuleIdx : j > i => j \notin round.polled
        /\ round.freed = round.built
        /\ round.rc = SYSMON_ERR_OUT_OF_MEMORY
        /\ round.snapshot.null
        /\ last_error # "(null)"

\* C4 without its last clause: what holds of an aborted round whether or
\* not the error message could be copied.
C4_AbortExceptMessage ==
  Polled =>
    \A i \in ModuleIdx :
      round.mrc[i] = SYSMON_ERR_OUT_OF_MEMORY =>
        /\ \A j \in ModuleIdx : j > i => j \notin round.polled
        /\ round.freed = round.built
        /\ round.rc = SYSMON_ERR_OUT_OF_MEMORY
        /\ round.snapshot.null
        /\ round.set_error

\* The enabled flags sysmon_create left behind.
EnabledAtCreate(i) ==
  CreateResult(scenario, scenario.engine_alloc, scenario.modules_alloc).modules[i].enabled

\* C5: after construction the enabled flag of a module never changes; an
\* enabled module is polled in every round that is not aborted before it
\* is reached, and each round that returns OK in which it failed carries an
\* error metric for it.
C5_EnabledForLife ==
  create_rc = SYSMON_OK =>
    \A i \in ModuleIdx :
      /\ modules[i].enabled = EnabledAtCreate(i)
      /\ (round.called /\ modules[i].enabled) =>
           /\ \/ i \in round.polled
              \/ \E k \in ModuleIdx : k < i /\ round.mrc[k] = SYSMON_ERR_OUT_OF_MEMORY
              \/ round.rc # SYSMON_OK /\ round.polled = {}
           /\ (FailedInRound(i) /\ round.rc = SYSMON_OK) =>
                HasMetric(round.snapshot, ErrorMetricName(NameOf(i)))

\* C5 without the error metric: the flag is stable and the module polled.
C5_EnabledStable ==
  create_rc = SYSMON_OK =>
    \A i \in ModuleIdx :
      /\ modules[i].enabled = EnabledAtCreate(i)
      /\ (round.called /\ modules[i].enabled) =>
           \/ i \in round.polled
           \/ \E k \in ModuleIdx : k < i /\ round.mrc[k] = SYSMON_ERR_OUT_OF_MEMORY
           \/ round.rc # SYSMON_OK /\ round.polled = {}

\* sysmon_create has returned.
Created == phase # "none"

\* C6: when a module's create returns NotSupported, that module is left
\* disabled and without private state while the modules created before and
\* after it stay enabled, the next module of the registry is processed,
\* sysmon_create does not return NotSupported, and it returns OK when no
\* other module fails and no refresh_ms is rejected.
C6_NotSupportedDemotes ==
  Created =>
    \A i \in ModuleIdx :
      create_log[i] = SYSMON_ERR_NOT_SUPPORTED =>
        /\ ~modules[i].enabled
        /\ ~modules[i].state.alloc
        /\ \A j \in ModuleIdx :
             create_log[j] = SYSMON_OK => modules[j].enabled /\ modules[j].state.alloc
        /\ i < BuiltinCount => modules[i + 1].vtable = NameOf(i + 1)
        /\ create_rc # SYSMON_ERR_NOT_SUPPORTED
        /\ ( /\ \A j \in ModuleIdx :
                  create_log[j] \in {"none", SYSMON_OK, SYSMON_ERR_NOT_SUPPORTED}
             /\ \A j \in ModuleIdx : RefreshTextValid(j) )
             => create_rc = SYSMON_OK /\ out_sysmon

\* An Engine was constructed although one module was not supported, and a
\* module after the unsupported one was created.
C6_Witness ==
  /\ phase = "live" /\ create_rc = SYSMON_OK
  /\ \E i, j \in ModuleIdx :
       /\ i < j
       /\ create_log[i] = SYSMON_ERR_NOT_SUPPORTED
       /\ create_log[j] = SYSMON_OK /\ modules[j].state.alloc

\* The create of module i failed with something other than NotSupported.
CreateFailed(i) ==
  create_log[i] \notin {"none", SYSMON_OK, SYSMON_ERR_NOT_SUPPORTED}

\* C7: when a module's create returns a failure other than NotSupported,
\* sysmon_create returns that result and a NULL handle, and destroy has
\* been called exactly once on every instance created before.
C7_CreateFailureUnwinds ==
  Created =>
    \A i \in ModuleIdx :
      CreateFailed(i) =>
        /\ create_rc = create_log[i]
        /\ ~out_sysmon
        /\ phase = "failed"
        /\ \A j \in ModuleIdx :
             create_log[j] = SYSMON_OK => destroy_calls[j] = 1

\* A module's create ran out of memory after another module was created.
C7_Witness ==
  /\ phase = "failed"
  /\ \E i, j \in ModuleIdx :
       /\ j < i
       /\ create_log[i] = SYSMON_ERR_OUT_OF_MEMORY
       /\ create_log[j] = SYSMON_OK /\ destroy_calls[j] = 1

\* refresh_ms of module i is present and is not a number of uint32.
RefreshTextBad(i) == ~RefreshTextValid(i)

\* sysmon_create got as far as reading the section of module i: the
\* allocations and the global configuration succeeded, no earlier section
\* has a bad refresh_ms and no earlier enabled module failed to create.
SectionReached(i) ==
  /\ scenario.engine_alloc /\ scenario.modules_alloc
  /\ scenario.load = SYSMON_OK
  /\ sysmon_config_load_from_ini(scenario.ini).rc = SYSMON_OK
  /\ \A j \in 1..(i - 1) :
       /\ RefreshTextValid(j)
       /\ ConfigDisabled(j)
            \/ scenario.host[NameOf(j)] \in {SYSMON_OK, SYSMON_ERR_NOT_SUPPORTED}

\* C8: a refresh_ms that is non-numeric or outside uint32, in the section
\* of an enabled or of a disabled module, makes sysmon_create return Parse
\* and a NULL handle, with every module created before destroyed.
C8_BadRefreshFailsCreate ==
  Created =>
    \A i \in ModuleIdx :
      (RefreshTextBad(i) /\ SectionReached(i)) =>
        /\ create_rc = SYSMON_ERR_PARSE
        /\ ~out_sysmon
        /\ \A j \in ModuleIdx :
             create_log[j] = SYSMON_OK => destroy_calls[j] = 1

\* The names of the module instances of the Engine.
InstanceNames == {modules[i].vtable : i \in DOMAIN modules}

\* C9: a constructed Engine has one module instance for each of cpu, ram,
\* battery, network and storage.
C9_FiveCollectors ==
  phase = "live" =>
    InstanceNames = {"cpu", "ram", "battery", "network", "storage"}

\* C10: in every round, for each module the round polls, refresh_due is
\* refresh_ms = 0, or no successful refresh so far, or
\* now - last_refresh >= refresh_ms, whatever the clock value.
C10_RefreshDue ==
  Polled =>
    \A i \in round.polled :
      LET r == modules[i].refresh_ms
          t == round.prev[i]
      IN  i \in round.due <=> (r = 0 \/ t = -1 \/ round.now - t >= r)

\* C11: in a poll round the last_refresh timestamp of a module becomes the
\* round's now when the module's poll succeeded with refresh_due true, and
\* is unchanged in every other case (not due, failed, not polled).
C11_LastRefreshFrame ==
  [][ (phase = "live" /\ phase' = "live") =>
        \A i \in ModuleIdx :
          modules'[i].last_refresh_ms =
            IF round'.mrc[i] = SYSMON_OK /\ i \in round'.due
              THEN round'.now
              ELSE modules[i].last_refresh_ms ]_vars

\* A module was polled successfully while its refresh was not due and kept
\* the timestamp of an earlier refresh.
C11_Witness ==
  /\ Polled
  /\ \E i \in round.polled \ round.due :
       /\ round.mrc[i] = SYSMON_OK
       /\ modules[i].last_refresh_ms > 0
       /\ modules[i].last_refresh_ms < round.now

\* The module's poll succeeded in the round with refresh_due true.
RefreshedInRound(i) == round.mrc[i] = SYSMON_OK /\ i \in round.due

\* C12: every module polled in a round is handed the round's single clock
\* reading, and all modules refreshed successfully in the round end with
\* the same last_refresh timestamp, that reading.
C12_OneClockReading ==
  Polled =>
    /\ \A i \in round.polled : round.seen[i] = round.now
    /\ \A i \in ModuleIdx :
         RefreshedInRound(i) => modules[i].last_refresh_ms = round.now
    /\ \A i, j \in ModuleIdx :
         (RefreshedInRound(i) /\ RefreshedInRound(j)) =>
           modules[i].last_refresh_ms = modules[j].last_refresh_ms

\* Two modules were refreshed successfully in one round after time 0.
C12_Witness ==
  /\ Polled /\ round.now > 0
  /\ \E i, j \in ModuleIdx : i # j /\ RefreshedInRound(i) /\ RefreshedInRound(j)

\* The metric names the modules appended in the round, module 1 first.
RECURSIVE AddedUpTo(_)
AddedUpTo(i) == IF i = 0 THEN <<>> ELSE AddedUpTo(i - 1) \o round.added[i]

\* The names of the snapshot as sysmon_snapshot_metric_at enumerates them.
SnapshotNames ==
  [k \in 1..Len(round.snapshot.metrics) |->
     sysmon_snapshot_metric_at(round.snapshot, k - 1).name]

\* The registry index of the module a metric belongs to by its name.
OwnerOf(m) ==
  CHOOSE i \in ModuleIdx :
    m.ns = NameOf(i) \/ m.name = ErrorMetricName(NameOf(i))

\* C13: in a returned snapshot index order is insertion order, the
\* metrics of each module (its error metric included) are contiguous, and
\* the blocks follow the registration order of the modules.
C13_BlocksInRegistrationOrder ==
  (Polled /\ round.rc = SYSMON_OK) =>
    /\ SnapshotNames = AddedUpTo(BuiltinCount)
    /\ \A k, l \in 1..Len(round.snapshot.metrics) :
         k < l => OwnerOf(round.snapshot.metrics[k]) <= OwnerOf(round.snapshot.metrics[l])

\* A snapshot with the error metric of one module and, after it, several
\* metrics of a later module.
C13_Witness ==
  /\ Polled /\ round.rc = SYSMON_OK
  /\ \E i, j \in ModuleIdx :
       /\ i < j
       /\ round.added[i] = <<ErrorMetricName(NameOf(i))>>
       /\ Len(round.added[j]) > 1 /\ round.mrc[j] = SYSMON_OK

\* C14: a successful poll of a module adds the same list of metric names
\* in every round, whether it refreshes or serves its cache: the list of
\* the module's first successful poll.
C14_SameNamesEveryRound ==
  Polled =>
    \A i \in ModuleIdx :
      round.mrc[i] = SYSMON_OK =>
        /\ round.added[i] # <<>>
        /\ round.added[i] = hist.names[i]

\* A module served its cache (no source read) in a successful round after
\* an earlier refresh.
C14_Witness ==
  /\ Polled /\ round.rc = SYSMON_OK
  /\ \E i \in round.polled \ round.queried :
       /\ round.mrc[i] = SYSMON_OK
       /\ Len(round.added[i]) > 1
       /\ round.prev[i] >= 0

\* C15: every metric a module adds is in the module's namespace, or is the
\* module's module.<name>.error metric; a snapshot holds nothing else.
C15_NamesCarryNamespace ==
  Polled =>
    /\ \A i \in ModuleIdx : \A k \in 1..Len(round.added[i]) :
         \/ NamespaceOf(round.added[i][k]) = NameOf(i)
         \/ round.added[i][k] = ErrorMetricName(NameOf(i))
    /\ \A k \in 1..Len(round.snapshot.metrics) :
         LET m == round.snapshot.metrics[k]
         IN  \E i \in ModuleIdx :
               \/ m.ns = NameOf(i) /\ m.name \in {round.added[i][n] : n \in 1..Len(round.added[i])}
               \/ m.name = ErrorMetricName(NameOf(i))

\* A snapshot with the metrics of the network module.
C15_Witness ==
  /\ Polled /\ round.rc = SYSMON_OK
  /\ \E i \in ModuleIdx :
       /\ NameOf(i) = "network" /\ round.mrc[i] = SYSMON_OK
       /\ Len(round.snapshot.metrics) = Len(network_metrics)

\* ---------------------------------------------------------------------------
\* Collector arithmetic: uint64_t counters and IEEE-754 binary64 doubles.
\* A uint64_t is four 16-bit limbs, most significant first.
\* ---------------------------------------------------------------------------

Limb == 65536

RECURSIVE Pow2(_)
Pow2(n) == IF n = 0 THEN 1 ELSE 2 * Pow2(n - 1)

U64Zero == <<0, 0, 0, 0>>

U64Of(n) == <<0, 0, n \div Limb, n % Limb>>

\* a < b as unsigned 64-bit values.
U64Less(a, b) ==
  \/ a[1] < b[1]
  \/ a[1] = b[1] /\ a[2] < b[2]
  \/ a[1] = b[1] /\ a[2] = b[2] /\ a[3] < b[3]
  \/ a[1] = b[1] /\ a[2] = b[2] /\ a[3] = b[3] /\ a[4] < b[4]

\* a + b modulo 2^64, the C addition of two uint64_t.
U64Add(a, b) ==
  LET s4 == a[4] + b[4]
      s3 == a[3] + b[3] + s4 \div Limb
      s2 == a[2] + b[2] + s3 \div Limb
      s1 == a[1] + b[1] + s2 \div Limb
  IN  <<s1 % Limb, s2 % Limb, s3 % Limb, s4 % Limb>>

\* a - b modulo 2^64, the C subtraction of two uint64_t.
U64Sub(a, b) ==
  LET d4 == a[4] - b[4]
      d3 == a[3] - b[3] - (IF d4 < 0 THEN 1 ELSE 0)
      d2 == a[2] - b[2] - (IF d3 < 0 THEN 1 ELSE 0)
      d1 == a[1] - b[1] - (IF d2 < 0 THEN 1 ELSE 0)
  IN  <<(d1 + Limb) % Limb, (d2 + Limb) % Limb, (d3 + Limb) % Limb, (d4 + Limb) % Limb>>

\* a * k + c modulo 2^64, for small k and c.
U64MulAdd(a, k, c) ==
  LET p4 == a[4] * k + c
      p3 == a[3] * k + p4 \div Limb
      p2 == a[2] * k + p3 \div Limb
      p1 == a[1] * k + p2 \div Limb
  IN  <<p1 % Limb, p2 % Limb, p3 % Limb, p4 % Limb>>

\* a shifted right by s bits, 0 <= s < 16.
U64Shr(a, s) ==
  LET d == Pow2(s)
      u == Limb \div d
  IN  <<a[1] \div d,
        (a[1] % d) * u + a[2] \div d,
        (a[2] % d) * u + a[3] \div d,
        (a[3] % d) * u + a[4] \div d>>

\* a shifted left by s bits modulo 2^64, 0 <= s < 64.
U64Shl(a, s) ==
  LET b == U64MulAdd(a, Pow2(s % 16), 0)
      w == s \div 16
  IN  [i \in 1..4 |-> IF i + w <= 4 THEN b[i + w] ELSE 0]

RECURSIVE IntBitLen(_)
IntBitLen(n) == IF n = 0 THEN 0 ELSE 1 + IntBitLen(n \div 2)

\* The position of the highest set bit of a, 0 for a = 0.
U64BitLen(a) ==
  IF a[1] # 0 THEN 48 + IntBitLen(a[1])
  ELSE IF a[2] # 0 THEN 32 + IntBitLen(a[2])
  ELSE IF a[3] # 0 THEN 16 + IntBitLen(a[3])
  ELSE IntBitLen(a[4])

\* A double: (-1)^neg * m * 2^e with 2^52 <= m < 2^53, or zero.
DoubleZero == [neg |-> FALSE, m |-> U64Zero, e |-> 0]

\* n, with a sticky flag for discarded non-zero bits below it, rounded to
\* a 53-bit significand, to nearest and ties to even.
RoundToDouble(n, sticky) ==
  LET len == U64BitLen(n)
      s == len - 53
      q == U64Shr(n, s)
      r == n[4] % Pow2(s)
      half == Pow2(s - 1)
      up == r > half \/ (r = half /\ (sticky \/ q[4] % 2 = 1))
      q2 == IF up THEN U64MulAdd(q, 1, 1) ELSE q
  IN  IF len = 0 THEN DoubleZero
      ELSE IF len <= 53 THEN [neg |-> FALSE, m |-> U64Shl(n, 53 - len), e |-> len - 53]
      ELSE IF U64BitLen(q2) = 54 THEN [neg |-> FALSE, m |-> U64Shr(q2, 1), e |-> s + 1]
      ELSE [neg |-> FALSE, m |-> q2, e |-> s]

\* (double)u for a uint64_t u.
DoubleOfU64(u) == RoundToDouble(u, FALSE)

\* x * k for a double x and a small integer constant k (k < 2^11).
DoubleTimes(x, k) ==
  IF x.m = U64Zero THEN DoubleZero
  ELSE LET p == RoundToDouble(U64MulAdd(x.m, k, 0), FALSE)
       IN  [neg |-> x.neg, m |-> p.m, e |-> p.e + x.e]

\* One step of the long division of significands: the next quotient bit.
DivStep(s, d) ==
  IF U64Less(s.r, d)
    THEN [q |-> U64MulAdd(s.q, 2, 0), r |-> U64MulAdd(s.r, 2, 0)]
    ELSE [q |-> U64MulAdd(s.q, 2, 1), r |-> U64MulAdd(U64Sub(s.r, d), 2, 0)]

\* n further quotient bits of the division by d; once the remainder is
\* zero the bits left are zeros.
RECURSIVE DivBits(_, _, _)
DivBits(s, d, n) ==
  IF n = 0 THEN s
  ELSE IF s.r = U64Zero THEN [q |-> U64Shl(s.q, n), r |-> U64Zero]
  ELSE DivBits(DivStep(s, d), d, n - 1)

\* a / b for doubles, b non-zero.
DoubleDiv(a, b) ==
  IF a.m = U64Zero THEN DoubleZero
  ELSE LET qr == DivBits([q |-> U64Zero, r |-> a.m], b.m, 56)
           p == RoundToDouble(qr.q, qr.r # U64Zero)
       IN  [neg |-> a.neg # b.neg, m |-> p.m, e |-> p.e + a.e - b.e - 55]

\* |a| < |b| for doubles.
DoubleSmaller(a, b) ==
  IF b.m = U64Zero THEN FALSE
  ELSE IF a.m = U64Zero THEN TRUE
  ELSE a.e < b.e \/ (a.e = b.e /\ U64Less(a.m, b.m))

\* a < b for doubles.
DoubleLess(a, b) ==
  IF a.neg # b.neg THEN a.neg
  ELSE IF a.neg THEN DoubleSmaller(b, a)
  ELSE DoubleSmaller(a, b)

Double100 == DoubleOfU64(U64Of(100))

\* ---------------------------------------------------------------------------
\* cpu collector: cpu_state_t, read_cpu_ticks, cpu_create, cpu_poll
\* ---------------------------------------------------------------------------

\* The state cpu_create leaves behind.
cpu_create_state(core_count) ==
  [last_total |-> U64Zero, last_idle |-> U64Zero,
   last_usage_percent |-> DoubleZero, core_count |-> core_count,
   has_prev |-> FALSE]

\* read_cpu_ticks over the first line of /proc/stat: idle_all is
\* idle + iowait, busy the sum of the other six fields.
read_cpu_ticks(busy, idle_all) ==
  [ok |-> TRUE, total |-> U64Add(busy, idle_all), idle |-> idle_all]

CpuReadFailed == [ok |-> FALSE, total |-> U64Zero, idle |-> U64Zero]

\* A tick count whose conversion to double has a significand above
\* 1.28 * 2^52: 14993172566392667368.
BigTicks == <<53266, 29443, 3063, 31976>>

CpuReadings ==
  {read_cpu_ticks(busy, idle_all) :
     busy \in {U64Of(n) : n \in 0..MaxSample} \cup {BigTicks},
     idle_all \in {U64Of(n) : n \in 0..MaxSample}}
  \cup {CpuReadFailed}

\* The usage a refresh computes from the deltas, whatever their order.
cpu_usage_unguarded(st, total, idle) ==
  LET total_delta == U64Sub(total, st.last_total)
      idle_delta == U64Sub(idle, st.last_idle)
  IN  IF total_delta # U64Zero
        THEN DoubleDiv(DoubleTimes(DoubleOfU64(U64Sub(total_delta, idle_delta)), 100),
                       DoubleOfU64(total_delta))
        ELSE st.last_usage_percent

\* last_usage_percent after a refresh that had a previous reading.
cpu_usage(st, total, idle) ==
  LET total_delta == U64Sub(total, st.last_total)
      idle_delta == U64Sub(idle, st.last_idle)
  IN  IF total_delta # U64Zero /\ ~U64Less(total_delta, idle_delta)
        THEN DoubleDiv(DoubleTimes(DoubleOfU64(U64Sub(total_delta, idle_delta)), 100),
                       DoubleOfU64(total_delta))
        ELSE st.last_usage_percent

\* cpu_poll with the tick arithmetic: the result, the state it leaves and
\* the value it adds as cpu.usage_percent.
cpu_poll_ticks(st, refresh_now, read) ==
  IF refresh_now \/ ~st.has_prev
    THEN IF ~read.ok
           THEN [rc |-> SYSMON_ERR_NOT_SUPPORTED, state |-> st, queried |-> TRUE,
                 adds |-> FALSE]
           ELSE [rc |-> SYSMON_OK,
                 state |-> [st EXCEPT
                   !.last_usage_percent =
                     IF st.has_prev THEN cpu_usage(st, read.total, read.idle) ELSE @,
                   !.has_prev = TRUE,
                   !.last_total = read.total,
                   !.last_idle = read.idle],
                 queried |-> TRUE, adds |-> TRUE]
    ELSE [rc |-> SYSMON_OK, state |-> st, queried |-> FALSE, adds |-> TRUE]

\* Nothing known of the cpu state before a poll.
NoCpuBefore ==
  [has_prev |-> FALSE, total |-> U64Zero, idle |-> U64Zero, usage |-> DoubleZero]

\* A cpu instance after cpu_create, before its first poll.
CpuCollector(core_count) ==
  [kind |-> "cpu", st |-> cpu_create_state(core_count), rc |-> "none",
   queried |-> FALSE, adds |-> FALSE, read |-> CpuReadFailed,
   before |-> NoCpuBefore, refreshes |-> 0]

\* One call of the cpu vtable's poll.
CpuPoll ==
  /\ coll.kind = "cpu"
  /\ \E refresh_now \in BOOLEAN :
     \E read \in IF refresh_now \/ ~coll.st.has_prev THEN CpuReadings ELSE {CpuReadFailed} :
       \E r \in {cpu_poll_ticks(coll.st, refresh_now, read)} :
         coll' = [kind |-> "cpu", st |-> r.state, rc |-> r.rc,
                  queried |-> r.queried, adds |-> r.adds,
                  read |-> IF r.queried THEN read ELSE CpuReadFailed,
                  before |-> IF r.queried /\ read.ok
                               THEN [has_prev |-> coll.st.has_prev,
                                     total |-> coll.st.last_total,
                                     idle |-> coll.st.last_idle,
                                     usage |-> coll.st.last_usage_percent]
                               ELSE NoCpuBefore,
                  refreshes |-> IF r.queried /\ read.ok /\ coll.refreshes < 2
                                  THEN coll.refreshes + 1 ELSE coll.refreshes]
  /\ UNCHANGED <<phase, create_rc, out_sysmon, scenario, interval_ms, modules,
                 last_error, create_log, destroy_calls, clock, round, hist,
                 snap, ini_call, table,
                 null_destroys>>

\* ---------------------------------------------------------------------------
\* network collector: network_state_t, network_create, network_poll
\* ---------------------------------------------------------------------------

\* The state network_create leaves behind.
network_create_state ==
  [last_rx_bytes |-> U64Zero, last_tx_bytes |-> U64Zero, last_ts_ms |-> 0,
   last_rx_rate |-> DoubleZero, last_tx_rate |-> DoubleZero, has_data |-> FALSE]

\* read_interface_bytes: the interface's byte counters, or a failure.
read_interface_bytes(rx, tx) == [ok |-> TRUE, rx |-> U64Of(rx), tx |-> U64Of(tx)]

NetworkReadFailed == [ok |-> FALSE, rx |-> U64Zero, tx |-> U64Zero]

\* Largest byte counter an interface reports.
MaxBytes == 1

NetworkReadings ==
  {read_interface_bytes(rx, tx) : rx \in 0..MaxBytes, tx \in 0..MaxBytes}
  \cup {NetworkReadFailed}

\* A delta that takes the modulo-2^64 difference of a lower reading.
network_delta_wrapping(bytes, last_bytes) == U64Sub(bytes, last_bytes)

\* rx_delta and tx_delta of network_poll.
network_delta(bytes, last_bytes) ==
  IF ~U64Less(bytes, last_bytes) THEN U64Sub(bytes, last_bytes) ELSE U64Zero

\* seconds of network_poll: (double)(now_ms - last_ts_ms) / 1000.0.
network_seconds(elapsed_ms) ==
  DoubleDiv(DoubleOfU64(U64Of(elapsed_ms)), DoubleOfU64(U64Of(1000)))

\* seconds > 0.0 ? (double)delta / seconds : 0.0
network_rate(delta, seconds) ==
  IF DoubleLess(DoubleZero, seconds)
    THEN DoubleDiv(DoubleOfU64(delta), seconds)
    ELSE DoubleZero

\* The two rates of a refresh that has an earlier timestamp to measure from.
network_rates(st, read, seconds) ==
  [rx |-> network_rate(network_delta(read.rx, st.last_rx_bytes), seconds),
   tx |-> network_rate(network_delta(read.tx, st.last_tx_bytes), seconds)]

\* The state a successful refresh stores.
network_refreshed(read, now_ms, rates) ==
  [last_rx_bytes |-> read.rx, last_tx_bytes |-> read.tx, last_ts_ms |-> now_ms,
   last_rx_rate |-> rates.rx, last_tx_rate |-> rates.tx, has_data |-> TRUE]

\* A poll that keeps its cache when no time has passed since the last sample.
network_poll_bytes_skipping(st, now_ms, refresh_now, read) ==
  IF refresh_now \/ ~st.has_data
    THEN IF ~read.ok
           THEN [rc |-> SYSMON_ERR_IO, state |-> st, queried |-> TRUE,
                 adds |-> FALSE]
           ELSE [rc |-> SYSMON_OK,
                 state |->
                   IF st.has_data /\ st.last_ts_ms > 0 /\ now_ms > st.last_ts_ms
                     THEN network_refreshed(read, now_ms,
                            network_rates(st, read, network_seconds(now_ms - st.last_ts_ms)))
                   ELSE IF st.has_data
                     THEN [st EXCEPT !.last_rx_rate = DoubleZero,
                                     !.last_tx_rate = DoubleZero]
                   ELSE network_refreshed(read, now_ms,
                                          [rx |-> DoubleZero, tx |-> DoubleZero]),
                 queried |-> TRUE, adds |-> TRUE]
    ELSE [rc |-> SYSMON_OK, state |-> st, queried |-> FALSE, adds |-> TRUE]

\* network_poll with the rate arithmetic: the result and the state it leaves.
network_poll_bytes(st, now_ms, refresh_now, read) ==
  IF refresh_now \/ ~st.has_data
    THEN IF ~read.ok
           THEN [rc |-> SYSMON_ERR_IO, state |-> st, queried |-> TRUE,
                 adds |-> FALSE]
           ELSE [rc |-> SYSMON_OK,
                 state |->
                   network_refreshed(read, now_ms,
                     IF st.has_data /\ st.last_ts_ms > 0 /\ now_ms > st.last_ts_ms
                       THEN network_rates(st, read, network_seconds(now_ms - st.last_ts_ms))
                       ELSE [rx |-> DoubleZero, tx |-> DoubleZero]),
                 queried |-> TRUE, adds |-> TRUE]
    ELSE [rc |-> SYSMON_OK, state |-> st, queried |-> FALSE, adds |-> TRUE]

\* Nothing known of the state before a poll.
NoBefore == [has_data |-> FALSE, rx |-> U64Zero, tx |-> U64Zero, refreshed_at |-> -1]

\* A network instance after network_create, before its first poll.
NetworkCollector ==
  [kind |-> "network", st |-> network_create_state, rc |-> "none", now |-> 0,
   queried |-> FALSE, adds |-> FALSE, read |-> NetworkReadFailed, before |-> NoBefore, refreshed_at |-> -1]

\* One call of the network vtable's poll, at a time not before the last, or
\* at the 0 that sysmon_now_ms returns when clock_gettime fails.
NetworkPoll ==
  /\ coll.kind = "network"
  /\ \E now_ms \in (coll.now..MaxNow) \cup {0}, refresh_now \in BOOLEAN :
     \E read \in IF refresh_now \/ ~coll.st.has_data
                   THEN NetworkReadings ELSE {NetworkReadFailed} :
       \E r \in {network_poll_bytes(coll.st, now_ms, refresh_now, read)} :
         LET refreshed == r.queried /\ r.rc = SYSMON_OK
         IN  coll' = [kind |-> "network", st |-> r.state, rc |-> r.rc, now |-> now_ms,
                      queried |-> r.queried, adds |-> r.adds,
                      read |-> IF r.queried THEN read ELSE NetworkReadFailed,
                      before |-> IF refreshed
                                   THEN [has_data |-> coll.st.has_data,
                                         rx |-> coll.st.last_rx_bytes,
                                         tx |-> coll.st.last_tx_bytes,
                                         refreshed_at |-> coll.refreshed_at]
                                   ELSE NoBefore,
                      refreshed_at |-> IF refreshed THEN now_ms ELSE coll.refreshed_at]
  /\ UNCHANGED <<phase, create_rc, out_sysmon, scenario, interval_ms, modules,
                 last_error, create_log, destroy_calls, clock, round, hist,
                 snap, ini_call, table,
                 null_destroys>>

\* ---------------------------------------------------------------------------
\* storage collector: storage_state_t, storage_create, storage_poll
\* ---------------------------------------------------------------------------

\* The state storage_create leaves behind.
storage_create_state ==
  [last_total_bytes |-> U64Zero, last_free_bytes |-> U64Zero,
   last_avail_bytes |-> U64Zero, last_used_bytes |-> U64Zero,
   last_used_percent |-> DoubleZero, has_data |-> FALSE]

\* read_storage_stats: statvfs block counts times the block size.
read_storage_stats(total, free_b, avail) ==
  [ok |-> TRUE, total |-> U64Of(total), free_b |-> U64Of(free_b), avail |-> U64Of(avail)]

StorageReadFailed == [ok |-> FALSE, total |-> U64Zero, free_b |-> U64Zero, avail |-> U64Zero]

StorageReadings ==
  {read_storage_stats(total, free_b, avail) :
     total \in 0..MaxSample, free_b \in 0..MaxSample, avail \in 0..MaxSample}
  \cup {StorageReadFailed}

\* A used_bytes that subtracts what unprivileged users may still allocate.
storage_used_bytes_avail(total, free_b, avail) ==
  IF ~U64Less(total, avail) THEN U64Sub(total, avail) ELSE U64Zero

\* last_used_bytes of storage_poll.
storage_used_bytes(total, free_b, avail) ==
  IF ~U64Less(total, free_b) THEN U64Sub(total, free_b) ELSE U64Zero

\* last_used_percent of storage_poll.
storage_used_percent(used, total) ==
  IF total # U64Zero
    THEN DoubleDiv(DoubleTimes(DoubleOfU64(used), 100), DoubleOfU64(total))
    ELSE DoubleZero

\* storage_poll: the result and the state it leaves.
storage_poll(st, refresh_now, read) ==
  IF refresh_now \/ ~st.has_data
    THEN IF ~read.ok
           THEN [rc |-> SYSMON_ERR_IO, state |-> st, queried |-> TRUE,
                 adds |-> FALSE]
           ELSE \* the used bytes are stored first and read back for the percentage
                LET used == storage_used_bytes(read.total, read.free_b, read.avail)
                IN  [rc |-> SYSMON_OK,
                     state |->
                       [last_total_bytes |-> read.total,
                        last_free_bytes |-> read.free_b,
                        last_avail_bytes |-> read.avail,
                        last_used_bytes |-> used,
                        last_used_percent |-> storage_used_percent(used, read.total),
                        has_data |-> TRUE],
                     queried |-> TRUE, adds |-> TRUE]
    ELSE [rc |-> SYSMON_OK, state |-> st, queried |-> FALSE, adds |-> TRUE]

\* A storage instance after storage_create, before its first poll.
StorageCollector ==
  [kind |-> "storage", st |-> storage_create_state, rc |-> "none",
   queried |-> FALSE, adds |-> FALSE, read |-> StorageReadFailed]

\* One call of the storage vtable's poll.
StoragePoll ==
  /\ coll.kind = "storage"
  /\ \E refresh_now \in BOOLEAN :
     \E read \in IF refresh_now \/ ~coll.st.has_data
                   THEN StorageReadings ELSE {StorageReadFailed} :
       \E r \in {storage_poll(coll.st, refresh_now, read)} :
         coll' = [kind |-> "storage", st |-> r.state, rc |-> r.rc,
                  queried |-> r.queried, adds |-> r.adds,
                  read |-> IF r.queried THEN read ELSE StorageReadFailed]
  /\ UNCHANGED <<phase, create_rc, out_sysmon, scenario, interval_ms, modules,
                 last_error, create_log, destroy_calls, clock, round, hist,
                 snap, ini_call, table,
                 null_destroys>>

\* ---------------------------------------------------------------------------
\* The collectors driven alone, each from the state its create leaves.
\* ---------------------------------------------------------------------------

CollectorInit ==
  /\ EngineInit
  /\ Alone
  /\ coll \in {CpuCollector(core_count) : core_count \in 0..1}
              \cup {NetworkCollector, StorageCollector}

CollectorNext == CpuPoll \/ NetworkPoll \/ StoragePoll

SpecCollectors == CollectorInit /\ [][CollectorNext]_vars

\* The cpu instance's last poll read the source successfully.
CpuRefreshed == coll.kind = "cpu" /\ coll.queried /\ coll.rc = SYSMON_OK

\* C16: for every sequence of cpu polls and tick readings the emitted
\* cpu.usage_percent is within [0, 100], and it is 0 in every round up to
\* and including the first successful refresh.
C16_UsageWithinRange ==
  (coll.kind = "cpu" /\ coll.rc = SYSMON_OK) =>
    /\ ~coll.st.last_usage_percent.neg
    /\ ~DoubleLess(Double100, coll.st.last_usage_percent)
    /\ coll.refreshes <= 1 => coll.st.last_usage_percent = DoubleZero

\* The part of C16 the code keeps: the usage is never negative and is 0
\* until a second successful reading exists.
C16_ZeroUntilSecondReading ==
  (coll.kind = "cpu" /\ coll.rc = SYSMON_OK) =>
    /\ ~coll.st.last_usage_percent.neg
    /\ coll.refreshes <= 1 => coll.st.last_usage_percent = DoubleZero

\* The deltas of the cpu instance's last refresh are not a valid sample.
CpuDeltaInvalid ==
  LET total_delta == U64Sub(coll.read.total, coll.before.total)
      idle_delta == U64Sub(coll.read.idle, coll.before.idle)
  IN  total_delta = U64Zero \/ U64Less(total_delta, idle_delta)

\* C17: a cpu refresh whose idle delta exceeds its total delta, or whose
\* total delta is 0, keeps the last valid usage percentage and still
\* replaces the cached total and idle counters by the new readings.
C17_NoiseKeepsLastUsage ==
  (CpuRefreshed /\ coll.before.has_prev /\ CpuDeltaInvalid) =>
    /\ coll.st.last_usage_percent = coll.before.usage
    /\ coll.st.last_total = coll.read.total
    /\ coll.st.last_idle = coll.read.idle

\* A refresh with idle delta above total delta kept a non-zero usage and
\* moved both counters.
C17_Witness ==
  /\ CpuRefreshed /\ coll.before.has_prev
  /\ U64Less(U64Sub(coll.read.total, coll.before.total),
             U64Sub(coll.read.idle, coll.before.idle))
  /\ coll.before.usage # DoubleZero
  /\ coll.st.last_total # coll.before.total
  /\ coll.st.last_idle # coll.before.idle

\* The network instance's last poll read the counters successfully.
NetworkRefreshed == coll.kind = "network" /\ coll.queried /\ coll.rc = SYSMON_OK

\* C18: the emitted rx and tx rates are never negative; a refresh whose
\* counter reading is below the previous one yields rate 0 for that
\* direction, and the first successful refresh yields 0 for both.
C18_RatesNeverNegative ==
  /\ (coll.kind = "network" /\ coll.rc = SYSMON_OK) =>
       /\ ~coll.st.last_rx_rate.neg
       /\ ~coll.st.last_tx_rate.neg
  /\ (NetworkRefreshed /\ coll.before.has_data) =>
       /\ U64Less(coll.st.last_rx_bytes, coll.before.rx) =>
            coll.st.last_rx_rate = DoubleZero
       /\ U64Less(coll.st.last_tx_bytes, coll.before.tx) =>
            coll.st.last_tx_rate = DoubleZero
  /\ (NetworkRefreshed /\ ~coll.before.has_data) =>
       /\ coll.st.last_rx_rate = DoubleZero
       /\ coll.st.last_tx_rate = DoubleZero

\* A refresh saw the rx counter fall while the tx counter rose: the rx
\* rate is 0 and the tx rate is positive.
C18_Witness ==
  /\ NetworkRefreshed /\ coll.before.has_data
  /\ U64Less(coll.st.last_rx_bytes, coll.before.rx)
  /\ coll.st.last_rx_rate = DoubleZero
  /\ DoubleLess(DoubleZero, coll.st.last_tx_rate)

\* (bytes_now - bytes_prev) / ((now - t_prev) / 1000) in doubles.
BytesPerSecond(bytes_now, bytes_prev, now, t_prev) ==
  DoubleDiv(DoubleOfU64(U64Sub(bytes_now, bytes_prev)),
            DoubleDiv(DoubleOfU64(U64Of(now - t_prev)), DoubleOfU64(U64Of(1000))))

\* The network refresh follows a successful refresh at an earlier time.
FollowsRefresh ==
  /\ NetworkRefreshed /\ coll.before.has_data
  /\ coll.before.refreshed_at >= 0
  /\ coll.before.refreshed_at < coll.now

C19_RateAfterNonZeroRefresh ==
  (FollowsRefresh /\ coll.before.refreshed_at > 0) =>
    /\ ~U64Less(coll.st.last_rx_bytes, coll.before.rx) =>
         coll.st.last_rx_rate =
           BytesPerSecond(coll.st.last_rx_bytes, coll.before.rx,
                          coll.now, coll.before.refreshed_at)
    /\ ~U64Less(coll.st.last_tx_bytes, coll.before.tx) =>
         coll.st.last_tx_rate =
           BytesPerSecond(coll.st.last_tx_bytes, coll.before.tx,
                          coll.now, coll.before.refreshed_at)

\* The storage instance's last poll read the filesystem successfully.
StorageRefreshed == coll.kind = "storage" /\ coll.queried /\ coll.rc = SYSMON_OK

\* C20: a storage refresh sets used_bytes to total_bytes - free_bytes, or
\* to 0 when free_bytes exceeds total_bytes, whatever available_bytes is,
\* and used_percent to 100 * used_bytes / total_bytes, or to 0 when
\* total_bytes is 0.
C20_StorageUsedFormula ==
  StorageRefreshed =>
    /\ coll.st.last_used_bytes =
         IF U64Less(coll.read.total, coll.read.free_b)
           THEN U64Zero
           ELSE U64Sub(coll.read.total, coll.read.free_b)
    /\ coll.st.last_used_percent =
         IF coll.read.total = U64Zero
           THEN DoubleZero
           ELSE DoubleDiv(DoubleTimes(DoubleOfU64(coll.st.last_used_bytes), 100),
                          DoubleOfU64(coll.read.total))

\* A refresh of a filesystem of 2 bytes with 1 free and 0 available: 1 byte
\* used, 50 percent.
C20_Witness ==
  /\ StorageRefreshed
  /\ coll.read = read_storage_stats(2, 1, 0)
  /\ coll.st.last_used_bytes = U64Of(1)
  /\ coll.st.last_used_percent = DoubleOfU64(U64Of(50))

\* ---------------------------------------------------------------------------
\* The snapshot builder and the snapshot accessors (snapshot.c), driven on
\* their own: create, add, finalize, then the accessors.
\* ---------------------------------------------------------------------------

\* Largest number of metrics added to one builder.
MaxMetrics == 3

\* sysmon_metric_type_t
SYSMON_METRIC_DOUBLE == 0
SYSMON_METRIC_INT64 == 1
SYSMON_METRIC_UINT64 == 2
SYSMON_METRIC_STRING == 3

Str_a == <<"a">>
Str_b == <<"b">>
Str_B == <<"B">>
Str_x == <<"x">>

\* The value union of a metric after memset(m, 0, sizeof(*m)).
ZeroValue == [bits |-> 0, str |-> NULL]

\* calloc'ed sysmon_snapshot_builder_t; count is Len(metrics).
EmptyBuilder == [metrics |-> <<>>, capacity |-> 0]

\* ensure_capacity; grow_ok: the realloc succeeds.
ensure_capacity(b, grow_ok) ==
  IF Len(b.metrics) < b.capacity THEN [rc |-> SYSMON_OK, builder |-> b]
  ELSE IF ~grow_ok THEN [rc |-> SYSMON_ERR_OUT_OF_MEMORY, builder |-> b]
  ELSE [rc |-> SYSMON_OK,
        builder |-> [b EXCEPT !.capacity = IF @ = 0 THEN 32 ELSE @ * 2]]

\* add_common; fail names the allocation that fails: "none", "grow",
\* "name", "unit" or "value".
add_common(b, name, unit, type, fail) ==
  IF name = NULL THEN [rc |-> SYSMON_ERR_INVALID_ARGUMENT, builder |-> b]
  ELSE LET g == ensure_capacity(b, fail # "grow")
       IN  IF g.rc # SYSMON_OK THEN g
           ELSE IF fail = "name" \/ (unit # NULL /\ fail = "unit")
             THEN [rc |-> SYSMON_ERR_OUT_OF_MEMORY, builder |-> g.builder]
           ELSE [rc |-> SYSMON_OK,
                 builder |-> [g.builder EXCEPT
                                !.metrics = Append(@, [type |-> type, name |-> name,
                                                       unit |-> unit,
                                                       value |-> ZeroValue])]]

\* builder->metrics[builder->count - 1].value = v
SetLastValue(r, v) ==
  [r EXCEPT !.builder.metrics[Len(r.builder.metrics)].value = v]

sysmon_snapshot_builder_add_double(b, name, unit, value, fail) ==
  LET r == add_common(b, name, unit, SYSMON_METRIC_DOUBLE, fail)
  IN  IF r.rc # SYSMON_OK THEN r ELSE SetLastValue(r, [ZeroValue EXCEPT !.bits = value])

sysmon_snapshot_builder_add_i64(b, name, unit, value, fail) ==
  LET r == add_common(b, name, unit, SYSMON_METRIC_INT64, fail)
  IN  IF r.rc # SYSMON_OK THEN r ELSE SetLastValue(r, [ZeroValue EXCEPT !.bits = value])

sysmon_snapshot_builder_add_u64(b, name, unit, value, fail) ==
  LET r == add_common(b, name, unit, SYSMON_METRIC_UINT64, fail)
  IN  IF r.rc # SYSMON_OK THEN r ELSE SetLastValue(r, [ZeroValue EXCEPT !.bits = value])

\* The metric is appended before its value is copied: when that copy fails
\* the metric stays in the builder with a NULL string.
sysmon_snapshot_builder_add_string(b, name, unit, value, fail) ==
  LET r == add_common(b, name, unit, SYSMON_METRIC_STRING, fail)
  IN  IF r.rc # SYSMON_OK THEN r
      ELSE IF fail = "value" THEN [r EXCEPT !.rc = SYSMON_ERR_OUT_OF_MEMORY]
      ELSE SetLastValue(r, [ZeroValue EXCEPT
                              !.str = IF value = NULL THEN Str_empty ELSE value])

\* The add function of the metric's type.
BuilderAddOf(b, in, fail) ==
  CASE in.type = SYSMON_METRIC_DOUBLE ->
         sysmon_snapshot_builder_add_double(b, in.name, in.unit, in.num, fail)
    [] in.type = SYSMON_METRIC_INT64 ->
         sysmon_snapshot_builder_add_i64(b, in.name, in.unit, in.num, fail)
    [] in.type = SYSMON_METRIC_UINT64 ->
         sysmon_snapshot_builder_add_u64(b, in.name, in.unit, in.num, fail)
    [] in.type = SYSMON_METRIC_STRING ->
         sysmon_snapshot_builder_add_string(b, in.name, in.unit, in.str, fail)

\* A finalize that hands the metrics over and keeps them in the builder.
builder_finalize_keeping(b, alloc) ==
  LET r == sysmon_snapshot_builder_finalize(b.metrics, alloc)
  IN  [rc |-> r.rc, snapshot |-> r.snapshot, builder |-> b]

\* sysmon_snapshot_builder_finalize on the builder itself: on success the
\* builder is left with metrics = NULL, count = 0 and capacity = 0; when
\* the calloc of the snapshot fails it is left as it was.
builder_finalize(b, alloc) ==
  LET r == sysmon_snapshot_builder_finalize(b.metrics, alloc)
  IN  [rc |-> r.rc, snapshot |-> r.snapshot,
       builder |-> IF r.rc = SYSMON_OK THEN EmptyBuilder ELSE b]

sysmon_snapshot_metric_count(snapshot) ==
  IF snapshot.null THEN 0 ELSE Len(snapshot.metrics)

\* The loop of a find that keeps scanning and returns the last match.
RECURSIVE find_from_last(_, _, _)
find_from_last(snapshot, name, i) ==
  IF i >= Len(snapshot.metrics) THEN NoMetric
  ELSE LET rest == find_from_last(snapshot, name, i + 1)
       IN  IF rest # NoMetric THEN rest
           ELSE IF snapshot.metrics[i + 1].name # NULL
                   /\ strcmp_eq(snapshot.metrics[i + 1].name, name)
             THEN snapshot.metrics[i + 1]
           ELSE NoMetric

\* The loop of sysmon_snapshot_find from index i (from 0) on.
RECURSIVE find_from(_, _, _)
find_from(snapshot, name, i) ==
  IF i >= Len(snapshot.metrics) THEN NoMetric
  ELSE IF snapshot.metrics[i + 1].name # NULL
          /\ strcmp_eq(snapshot.metrics[i + 1].name, name)
    THEN snapshot.metrics[i + 1]
  ELSE find_from(snapshot, name, i + 1)

\* A find that returns the last metric of that name.
sysmon_snapshot_find_last(snapshot, name) ==
  IF snapshot.null \/ name = NULL THEN NoMetric
  ELSE find_from_last(snapshot, name, 0)

\* sysmon_snapshot_find; NoMetric stands for NULL.
sysmon_snapshot_find(snapshot, name) ==
  IF snapshot.null \/ name = NULL THEN NoMetric
  ELSE find_from(snapshot, name, 0)

\* A call of the add function of a type: name, unit (NULL: none) and the
\* value, num for the numeric types and str (a string or NULL) for strings.
AddInput(type, name, unit, num, str) ==
  [type |-> type, name |-> name, unit |-> unit, num |-> num, str |-> str]

AddInputs ==
  { AddInput(SYSMON_METRIC_DOUBLE, Str_a, Str_B, 1, NULL),
    AddInput(SYSMON_METRIC_INT64, Str_a, NULL, -1, NULL),
    AddInput(SYSMON_METRIC_UINT64, Str_b, Str_B, 2, NULL),
    AddInput(SYSMON_METRIC_STRING, Str_b, NULL, 0, Str_x),
    AddInput(SYSMON_METRIC_STRING, Str_a, Str_B, 0, NULL),
    AddInput(SYSMON_METRIC_UINT64, NULL, NULL, 2, NULL) }

AddFailures == {"none", "grow", "name", "unit", "value"}

\* Names handed to sysmon_snapshot_find.
FindNames == {Str_a, Str_b, Str_x, NULL}

SnapshotBuilderCreate ==
  /\ snap.phase = "none"
  /\ \E alloc \in BOOLEAN :
       snap' = IF alloc
                 THEN [NoBuilder EXCEPT !.phase = "building", !.rc = SYSMON_OK]
                 ELSE [NoBuilder EXCEPT !.phase = "no builder",
                                        !.rc = SYSMON_ERR_OUT_OF_MEMORY]
  /\ UNCHANGED <<phase, create_rc, out_sysmon, scenario, interval_ms, modules,
                 last_error, create_log, destroy_calls, clock, round, hist,
                 coll, ini_call, table,
                 null_destroys>>

\* One call of an add function; added lists the inputs of the calls that
\* returned SYSMON_OK, clean is FALSE once a call has failed.
SnapshotBuilderAdd ==
  /\ snap.phase = "building"
  /\ Len(snap.builder.metrics) < MaxMetrics
  /\ \E in \in AddInputs, fail \in AddFailures :
       LET r == BuilderAddOf(snap.builder, in, fail)
       IN  snap' = [snap EXCEPT
                      !.builder = r.builder,
                      !.rc = r.rc,
                      !.added = IF r.rc = SYSMON_OK THEN Append(@, in) ELSE @,
                      !.clean = @ /\ r.rc = SYSMON_OK]
  /\ UNCHANGED <<phase, create_rc, out_sysmon, scenario, interval_ms, modules,
                 last_error, create_log, destroy_calls, clock, round, hist,
                 coll, ini_call, table,
                 null_destroys>>

\* sysmon_snapshot_builder_finalize(builder, &snapshot) with snapshot
\* initialised to NULL by the caller.
SnapshotBuilderFinalize ==
  /\ snap.phase = "building"
  /\ \E alloc \in BOOLEAN :
       LET r == builder_finalize(snap.builder, alloc)
       IN  snap' = [snap EXCEPT
                      !.phase = IF r.rc = SYSMON_OK THEN "finalized" ELSE "not finalized",
                      !.builder = r.builder,
                      !.snapshot = r.snapshot,
                      !.rc = r.rc]
  /\ UNCHANGED <<phase, create_rc, out_sysmon, scenario, interval_ms, modules,
                 last_error, create_log, destroy_calls, clock, round, hist,
                 coll, ini_call, table,
                 null_destroys>>

\* The three accessors called on the snapshot pointer the caller holds
\* (NULL when finalize failed).
SnapshotQuery ==
  /\ snap.phase \in {"finalized", "not finalized"}
  /\ \E index \in 0..(MaxMetrics + 1), name \in FindNames :
       snap' = [snap EXCEPT
                  !.q = [asked |-> TRUE, index |-> index, name |-> name,
                         count |-> sysmon_snapshot_metric_count(snap.snapshot),
                         at |-> sysmon_snapshot_metric_at(snap.snapshot, index),
                         found |-> sysmon_snapshot_find(snap.snapshot, name)]]
  /\ UNCHANGED <<phase, create_rc, out_sysmon, scenario, interval_ms, modules,
                 last_error, create_log, destroy_calls, clock, round, hist,
                 coll, ini_call, table,
                 null_destroys>>

SnapshotNext ==
  SnapshotBuilderCreate \/ SnapshotBuilderAdd \/ SnapshotBuilderFinalize
  \/ SnapshotQuery

SpecSnapshot == Init /\ [][SnapshotNext]_vars

\* The metric a successful add of the input leaves in the builder.
StoredAs(in) ==
  [type |-> in.type, name |-> in.name, unit |-> in.unit,
   value |-> IF in.type = SYSMON_METRIC_STRING
               THEN [ZeroValue EXCEPT !.str = in.str]
               ELSE [ZeroValue EXCEPT !.bits = in.num]]

\* Every string metric was added with a string as its value.
ValuesGiven(added) ==
  \A k \in 1..Len(added) :
    added[k].type = SYSMON_METRIC_STRING => added[k].str # NULL

C22_FailingPollSetsLastError ==
  (Polled /\ round.rc # SYSMON_OK) => (round.set_error /\ last_error # "(null)")

\* C23: sysmon_destroy on a NULL handle changes nothing of the Engine and
\* calls no module destroy; after sysmon_destroy on a live Engine the
\* module destroy has been called exactly once on every instance whose
\* create succeeded and never on a module disabled by configuration or
\* demoted by NotSupported.
C23_DestroyReleasesCreatedOnly ==
  /\ [](phase = "destroyed" =>
          \A i \in ModuleIdx :
            /\ destroy_calls[i] = IF create_log[i] = SYSMON_OK THEN 1 ELSE 0
            /\ (ConfigDisabled(i) \/ Demoted(i)) => destroy_calls[i] = 0)
  /\ [][null_destroys' # null_destroys =>
          UNCHANGED <<phase, create_rc, out_sysmon, scenario, interval_ms, modules,
                      last_error, create_log, destroy_calls, clock, round, hist>>]_vars

\* An Engine with a created, a disabled and a demoted module was destroyed
\* and sysmon_destroy was then called on the NULL handle.
C23_Witness ==
  /\ phase = "destroyed" /\ null_destroys = 1
  /\ \E i, j, k \in ModuleIdx :
       /\ create_log[i] = SYSMON_OK /\ destroy_calls[i] = 1
       /\ ConfigDisabled(j) /\ destroy_calls[j] = 0
       /\ Demoted(k) /\ destroy_calls[k] = 0

\* ---------------------------------------------------------------------------
\* Two Engines used from two threads.  What the Engines have in common is
\* the function-local static table of sysmon_builtin_modules: modules[4]
\* and the flag initialized, filled by the first caller without any
\* synchronisation; every instance keeps a pointer into it.
\* ---------------------------------------------------------------------------

Threads == 1..2
Slots == 0..(BuiltinCount - 1)

\* The stores of the if block of sysmon_builtin_modules: the four slots
\* and the flag.
TableStores == {<<"modules", s>> : s \in Slots} \cup {<<"initialized", 0>>}

\* The statics as the loader leaves them, and two threads about to call
\* sysmon_create.
TwoThreads ==
  [kind |-> "threads",
   initialized |-> FALSE,
   modules |-> [s \in Slots |-> FALSE],
   pc |-> [t \in Threads |-> "start"],
   pending |-> [t \in Threads |-> {}],
   i |-> [t \in Threads |-> 0],
   rc |-> [t \in Threads |-> "none"],
   reads |-> [t \in Threads |-> {}],
   writes |-> [t \in Threads |-> {}]]

\* if (!initialized): the thread reads the flag.
BuiltinModulesTest(t) ==
  /\ table.pc[t] = "start"
  /\ table' = [table EXCEPT
                 !.reads[t] = @ \cup {<<"initialized", 0>>},
                 !.pc[t] = IF table.initialized THEN "loop" ELSE "init",
                 !.pending[t] = IF table.initialized THEN {} ELSE TableStores]

\* One store of the if block becomes visible.  The stores are plain
\* stores to distinct objects, so the build may make them visible in any
\* order.
BuiltinModulesStore(t) ==
  /\ table.pc[t] = "init"
  /\ \E st \in table.pending[t] :
       table' = [table EXCEPT
                   !.initialized = IF st[1] = "initialized" THEN TRUE ELSE @,
                   !.modules = IF st[1] = "modules" THEN [@ EXCEPT ![st[2]] = TRUE]
                               ELSE @,
                   !.writes[t] = @ \cup {st},
                   !.pending[t] = @ \ {st},
                   !.pc[t] = IF table.pending[t] = {st} THEN "loop" ELSE "init"]

\* One iteration of the loop of init_modules: inst->vtable = &builtins[i],
\* then vtable->name and vtable->create are read through it.  A slot that
\* is still zero gives a NULL name and a NULL create.
InitModulesStep(t) ==
  /\ table.pc[t] = "loop"
  /\ LET s == table.i[t]
     IN  table' = [table EXCEPT
                     !.reads[t] = @ \cup {<<"modules", s>>},
                     !.i[t] = s + 1,
                     !.rc[t] = IF ~table.modules[s] THEN "undefined"
                               ELSE IF s + 1 = BuiltinCount THEN SYSMON_OK ELSE @,
                     !.pc[t] = IF ~table.modules[s] THEN "crashed"
                               ELSE IF s + 1 = BuiltinCount THEN "live" ELSE "loop"]

\* sysmon_poll of the thread's Engine calls inst->vtable->poll.
TablePoll(t) ==
  /\ table.pc[t] = "live"
  /\ table' = [table EXCEPT
                 !.reads[t] = @ \cup {<<"modules", s>> : s \in Slots},
                 !.pc[t] = "polled"]

\* sysmon_destroy of the thread's Engine calls inst->vtable->destroy.
TableDestroy(t) ==
  /\ table.pc[t] \in {"live", "polled"}
  /\ table' = [table EXCEPT
                 !.reads[t] = @ \cup {<<"modules", s>> : s \in Slots},
                 !.pc[t] = "destroyed"]

EngineIdle ==
  UNCHANGED <<phase, create_rc, out_sysmon, scenario, interval_ms, modules,
              last_error, create_log, destroy_calls, clock, round, hist,
              coll, snap, ini_call, null_destroys>>

ThreadTest == (\E t \in Threads : BuiltinModulesTest(t)) /\ EngineIdle
ThreadStore == (\E t \in Threads : BuiltinModulesStore(t)) /\ EngineIdle
ThreadInitModules == (\E t \in Threads : InitModulesStep(t)) /\ EngineIdle
ThreadPoll == (\E t \in Threads : TablePoll(t)) /\ EngineIdle
ThreadDestroy == (\E t \in Threads : TableDestroy(t)) /\ EngineIdle

TwoEnginesInit ==
  /\ EngineInit
  /\ coll = NoCollector /\ snap = NoBuilder /\ ini_call = NoIniCall
  /\ table = TwoThreads

TwoEnginesNext ==
  ThreadTest \/ ThreadStore \/ ThreadInitModules \/ ThreadPoll \/ ThreadDestroy

SpecTwoEngines == TwoEnginesInit /\ [][TwoEnginesNext]_vars

\* C24: whatever the interleaving of the operations on two Engines, every
\* sysmon_create has the outcome it has alone (SYSMON_OK on this host),
\* and no location written by the operations of one Engine is read or
\* written by the operations of the other.
C24_EnginesShareNothing ==
  table.kind = "threads" =>
    /\ \A t \in Threads : table.rc[t] \in {"none", SYSMON_OK}
    /\ \A t, u \in Threads :
         t # u => table.writes[t] \cap (table.reads[u] \cup table.writes[u]) = {}

\* sysmon_interval_ms on the handle the caller holds: NULL unless the
\* Engine is live.
sysmon_interval_ms == IF phase = "live" THEN interval_ms ELSE 0

\* The interval_ms value of [sysmon] in the ini (NULL when absent).
IntervalText == sysmon_ini_get(scenario.ini, "sysmon", "interval_ms")

\* sysmon_create got as far as loading the configuration.
ConfigReached == Created /\ scenario.engine_alloc /\ scenario.load = SYSMON_OK

\* C25: the Engine is built with interval 1000 when [sysmon] interval_ms
\* is absent or empty and with the configured value when that is an
\* integer in 1 .. 2^32 - 1; an interval_ms that is 0, not a number or
\* outside uint32 makes sysmon_create fail with Parse; sysmon_interval_ms
\* returns the resolved value for the whole lifetime of the Engine and 0
\* for a NULL handle.
C25_IntervalResolution ==
  /\ [](ConfigReached =>
          /\ IntervalText \in {NULL, Str_empty} =>
               (phase = "live" => sysmon_interval_ms = DefaultIntervalMs)
          /\ (IntervalText \notin {NULL, Str_empty}
              /\ (~NumericText(IntervalText) \/ OutsideUint32(IntervalText)
                  \/ IntervalText = Str_0)) =>
               (create_rc = SYSMON_ERR_PARSE /\ ~out_sysmon)
          /\ (IntervalText \notin {NULL, Str_empty} /\ NumericText(IntervalText)
              /\ ~OutsideUint32(IntervalText) /\ IntervalText # Str_0) =>
               (phase = "live" =>
                  sysmon_interval_ms
                    = DecToInt([k \in 1..Len(IntervalText) |-> DigitVal(IntervalText[k])])))
  /\ [](phase # "live" => sysmon_interval_ms = 0)
  /\ [][phase = "live" /\ phase' = "live" => interval_ms' = interval_ms]_vars

\* The resolution that does hold: C25 for every text that strtoul does not
\* wrap around.
C25_ResolutionOfUnwrappedTexts ==
  (ConfigReached /\ IntervalText # Str_minus18446744073709551615) =>
    /\ IntervalText \in {NULL, Str_empty} =>
         (phase = "live" => sysmon_interval_ms = DefaultIntervalMs)
    /\ (IntervalText \notin {NULL, Str_empty}
        /\ (~NumericText(IntervalText) \/ OutsideUint32(IntervalText)
            \/ IntervalText = Str_0)) =>
         (create_rc = SYSMON_ERR_PARSE /\ ~out_sysmon)
    /\ (IntervalText \notin {NULL, Str_empty} /\ NumericText(IntervalText)
        /\ ~OutsideUint32(IntervalText) /\ IntervalText # Str_0) =>
         (phase = "live" =>
            sysmon_interval_ms
              = DecToInt([k \in 1..Len(IntervalText) |-> DigitVal(IntervalText[k])]))

\* ---------------------------------------------------------------------------
\* The typed ini getters called on their own: one key with one value (or
\* no entry at all) and a default.
\* ---------------------------------------------------------------------------

Str_true == <<"t", "r", "u", "e">>
Str_tRuE == <<"t", "R", "u", "E">>
Str_on == <<"o", "n">>
Str_ON == <<"O", "N">>
Str_no == <<"n", "o">>
Str_yes == <<"y", "e", "s">>
Str_off == <<"o", "f", "f">>
Str_FALSE == <<"F", "A", "L", "S", "E">>
Str_10 == <<"1", "0">>
Str_007 == <<"0", "0", "7">>
Str_x2 == <<"x", "2">>
Str_minus == <<"-">>

\* Values of the key; NULL: the ini has no entry for it.
IniTexts ==
  { NULL, Str_empty, Str_0, Str_1, Str_2, Str_10, Str_007, Str_plus2, Str_minus1,
    Str_minus, Str_2x, Str_x2, Str_abc, Str_maybe,
    Str_4294967296, Str_18446744073709551616, Str_minus18446744073709551615,
    Str_true, Str_tRuE, Str_yes, Str_Yes, Str_on, Str_ON,
    Str_false, Str_FALSE, Str_no, Str_No, Str_off, Str_OFF }

U32Defaults == {0, DefaultIntervalMs}

\* The ini holding the one entry, or nothing.
IniOf(text) == IF text = NULL THEN <<>> ELSE <<<<"section", "key", text>>>>

\* A call about to be made: the value in the ini and the two defaults.
IniInputs ==
  { [fn |-> "pending", text |-> v, default_u32 |-> d, default_bool |-> b,
     ok |-> TRUE, value |-> 0, flag |-> FALSE] :
      v \in IniTexts, d \in U32Defaults, b \in BOOLEAN }

IniGetU32 ==
  /\ ini_call.fn = "pending"
  /\ LET r == sysmon_ini_get_u32(IniOf(ini_call.text), "section", "key",
                                 ini_call.default_u32)
     IN  ini_call' = [ini_call EXCEPT !.fn = "get_u32", !.ok = r.ok, !.value = r.value]
  /\ UNCHANGED <<phase, create_rc, out_sysmon, scenario, interval_ms, modules,
                 last_error, create_log, destroy_calls, clock, round, hist,
                 coll, snap, table, null_destroys>>

IniGetBool ==
  /\ ini_call.fn = "pending"
  /\ ini_call' = [ini_call EXCEPT
                    !.fn = "get_bool",
                    !.flag = sysmon_ini_get_bool(IniOf(ini_call.text), "section", "key",
                                                 ini_call.default_bool)]
  /\ UNCHANGED <<phase, create_rc, out_sysmon, scenario, interval_ms, modules,
                 last_error, create_log, destroy_calls, clock, round, hist,
                 coll, snap, table, null_destroys>>

IniInit ==
  /\ EngineInit
  /\ coll = NoCollector /\ snap = NoBuilder /\ table = NoThreads
  /\ ini_call \in IniInputs

IniNext == IniGetU32 \/ IniGetBool

SpecIni == IniInit /\ [][IniNext]_vars

\* The text consists of decimal digits only, at least one.
DigitsOnly(v) == v # <<>> /\ \A k \in 1..Len(v) : isdigit(v[k])

\* The text is a number with a minus sign and a magnitude above zero.
NegativeText(v) ==
  /\ Len(v) > 1 /\ v[1] = "-" /\ DigitsOnly(Tail(v))
  /\ \E k \in 2..Len(v) : v[k] # "0"

\* C26: sysmon_ini_get_u32 returns the default with ok = true when the key
\* is absent or its value empty, the number with ok = true for a decimal
\* number in 0 .. 2^32 - 1, and ok = false for every value that is not a
\* number, has characters after the digits, is negative or is above
\* 2^32 - 1.
C26_GetUint32 ==
  ini_call.fn = "get_u32" =>
    LET v == ini_call.text
    IN  /\ v \in {NULL, Str_empty} =>
             (ini_call.ok /\ ini_call.value = ini_call.default_u32)
        /\ (v # NULL /\ DigitsOnly(v) /\ ~OutsideUint32(v)) =>
             /\ ini_call.ok
             /\ ini_call.value = DecToInt([k \in 1..Len(v) |-> DigitVal(v[k])])
        /\ (v \notin {NULL, Str_empty}
            /\ (~NumericText(v) \/ NegativeText(v) \/ OutsideUint32(v))) =>
             ~ini_call.ok

\* What does hold: C26 for every text that strtoul does not wrap around.
C26_GetUint32Unwrapped ==
  (ini_call.fn = "get_u32" /\ ini_call.text # Str_minus18446744073709551615) =>
    LET v == ini_call.text
    IN  /\ v \in {NULL, Str_empty} =>
             (ini_call.ok /\ ini_call.value = ini_call.default_u32)
        /\ (v # NULL /\ DigitsOnly(v) /\ ~OutsideUint32(v)) =>
             /\ ini_call.ok
             /\ ini_call.value = DecToInt([k \in 1..Len(v) |-> DigitVal(v[k])])
        /\ (v \notin {NULL, Str_empty}
            /\ (~NumericText(v) \/ NegativeText(v) \/ OutsideUint32(v))) =>
             ~ini_call.ok

\* The text in lower case.
Lowered(v) == [k \in 1..Len(v) |-> tolower(v[k])]

TrueTokens == {Str_1, Str_true, Str_yes, Str_on}
FalseTokens == {Str_0, Str_false, Str_no, Str_off}

\* C27: sysmon_ini_get_bool returns true for 1, true, yes and on, false
\* for 0, false, no and off, in any mix of upper and lower case, and the
\* default when the key is absent or its value is none of the eight.
C27_GetBool ==
  ini_call.fn = "get_bool" =>
    LET v == ini_call.text
    IN  /\ (v # NULL /\ Lowered(v) \in TrueTokens) => ini_call.flag = TRUE
        /\ (v # NULL /\ Lowered(v) \in FalseTokens) => ini_call.flag = FALSE
        /\ (v = NULL \/ Lowered(v) \notin (TrueTokens \cup FalseTokens)) =>
             ini_call.flag = ini_call.default_bool

\* OFF in upper case was read as false against the default true.
C27_Witness ==
  /\ ini_call.fn = "get_bool"
  /\ ini_call.text = Str_OFF
  /\ ini_call.default_bool = TRUE
  /\ ini_call.flag = FALSE

\* Indices (from 1) of the metrics of the snapshot named name.
Hits(snapshot, name) ==
  {k \in 1..Len(snapshot.metrics) : snapshot.metrics[k].name = name}

\* The smallest element of a non-empty set of numbers.
Lowest(S) == CHOOSE k \in S : \A j \in S : k <= j

\* C28: metric_at(i) returns the metric at index i exactly when
\* i < metric_count and NULL otherwise; find(name) returns the metric of
\* lowest index whose name is name, also among several of that name, and
\* NULL when there is none; a NULL snapshot has count 0 and gives NULL
\* from both accessors.
C28_AccessorsBounds ==
  snap.q.asked =>
    LET s == snap.snapshot
        q == snap.q
    IN  /\ s.null => (q.count = 0 /\ q.at = NoMetric /\ q.found = NoMetric)
        /\ ~s.null =>
             /\ q.count = Len(s.metrics)
             /\ (q.at # NoMetric) <=> (q.index < q.count)
             /\ q.index < q.count => q.at = s.metrics[q.index + 1]
             /\ Hits(s, q.name) = {} => q.found = NoMetric
             /\ Hits(s, q.name) # {} => q.found = s.metrics[Lowest(Hits(s, q.name))]

\* find was asked for a name that two different metrics of the snapshot
\* carry, and metric_at for the index one past the last metric.
C28_Witness ==
  /\ snap.q.asked /\ ~snap.snapshot.null
  /\ snap.q.index = Len(snap.snapshot.metrics)
  /\ snap.q.at = NoMetric
  /\ \E j, k \in Hits(snap.snapshot, snap.q.name) :
       /\ j < k
       /\ snap.snapshot.metrics[j] # snap.snapshot.metrics[k]
       /\ snap.q.found = snap.snapshot.metrics[j]

\* C29: a module whose last_refresh is set holds a cached sample; and a
\* module polled in a round with refresh_due false was refreshed before,
\* does not read its source in the call, does not fail with a read error,
\* keeps the sample of its last successful refresh and puts exactly the
\* values of that sample into the snapshot.
C29_CachedPollServesLastRefresh ==
  /\ phase = "live" =>
       \A i \in ModuleIdx :
         modules[i].last_refresh_ms # 0 => modules[i].state.has_data
  /\ Polled =>
       \A i \in round.polled \ round.due :
         /\ round.prev[i] >= 0
         /\ i \notin round.queried
         /\ ~FailedInRound(i)
         /\ modules[i].state.sample = hist.ref[i].sample
         /\ round.rc = SYSMON_OK =>
              \A k \in 1..Len(round.snapshot.metrics) :
                LET m == round.snapshot.metrics[k]
                IN  (m.ns = NameOf(i) /\ m.name \notin StaticMetricNames) =>
                      m.value = hist.ref[i].sample

\* A module served the sample 2 of an earlier refresh in a successful
\* round in which its refresh was not due.
C29_Witness ==
  /\ Polled /\ round.rc = SYSMON_OK
  /\ \E i \in round.polled \ round.due :
       /\ hist.ref[i].sample = 2
       /\ hist.ref[i].t < round.now
       /\ \E k \in 1..Len(round.snapshot.metrics) :
            /\ round.snapshot.metrics[k].ns = NameOf(i)
            /\ round.snapshot.metrics[k].value = 2

\* The module's poll failed in the round while its refresh was due.
FailedRefresh(i) == i \in FailedDue(round)

\* last_refresh_ms as the refresh history gives it: the time of the last
\* successful refresh, 0 when there was none.
LastRefreshOf(t) == IF t < 0 THEN 0 ELSE t

\* C30: after a round in which a module's poll failed while its refresh
\* was due, last_refresh is what it was before that round; and in the next
\* round, at whatever clock value, a poll of the module is again
\* refresh_due and queries the source, and when it succeeds it starts the
\* cache interval at that round's time and the snapshot carries the
\* module's values of the sample just read and no error metric for it.
C30_FailedRefreshIsRetried ==
  [][ (Polled /\ phase = "live" /\ phase' = "live") =>
        \A i \in ModuleIdx :
          FailedRefresh(i) =>
            /\ modules[i].last_refresh_ms = LastRefreshOf(round.prev[i])
            /\ hist.ref[i].t = round.prev[i]
            /\ i \in round'.polled =>
                 /\ i \in round'.due
                 /\ i \in round'.queried
            /\ (i \in round'.polled /\ round'.mrc[i] = SYSMON_OK) =>
                 /\ modules'[i].last_refresh_ms = round'.now
                 /\ hist'.ref[i] = [t |-> round'.now,
                                    sample |-> modules'[i].state.sample]
                 /\ round'.rc = SYSMON_OK =>
                      /\ ~HasMetric(round'.snapshot, ErrorMetricName(NameOf(i)))
                      /\ \A k \in 1..Len(round'.snapshot.metrics) :
                           LET m == round'.snapshot.metrics[k]
                           IN  (m.ns = NameOf(i) /\ m.name \notin StaticMetricNames) =>
                                 m.value = modules'[i].state.sample ]_vars

\* A module with a refresh interval failed a due refresh after an earlier
\* successful one, and in a later round, after its source recovered, it
\* was refreshed with a new sample and reported no error metric.
C30_Witness ==
  /\ Polled /\ round.rc = SYSMON_OK
  /\ \E i \in round.retry \cap round.due :
       /\ modules[i].refresh_ms > 0
       /\ round.mrc[i] = SYSMON_OK
       /\ round.prev[i] > 0
       /\ round.prev[i] < round.now
       /\ modules[i].last_refresh_ms = round.now
       /\ ~HasMetric(round.snapshot, ErrorMetricName(NameOf(i)))
       /\ HasNamespace(round.snapshot, NameOf(i))

\* ---------------------------------------------------------------------------
\* network collector, interface resolution: copy_ifname, read_interface_bytes,
\* network_create, network_poll
\* ---------------------------------------------------------------------------

SYSMON_IFNAME_LEN == 64

Str_lo == <<"l", "o">>
Str_eth0 == <<"e", "t", "h", "0">>
Str_wlan0 == <<"w", "l", "a", "n", "0">>

\* A configured name that does not fit ifname[SYSMON_IFNAME_LEN].
LongIfname == [k \in 1..SYSMON_IFNAME_LEN |-> "x"]

\* copy_ifname: snprintf(dst, dst_len, "%s", src) keeps dst_len - 1 characters.
copy_ifname(src) ==
  IF Len(src) >= SYSMON_IFNAME_LEN THEN SubSeq(src, 1, SYSMON_IFNAME_LEN - 1) ELSE src

\* The byte counters the host reports on the line of an interface.
IfaceLine(name) ==
  [ifname |-> name,
   rx |-> IF name = Str_lo THEN 1 ELSE IF name = Str_eth0 THEN 2 ELSE 3,
   tx |-> IF name = Str_lo THEN 4 ELSE IF name = Str_eth0 THEN 5 ELSE 6]

IfaceNames == {Str_lo, Str_eth0, Str_wlan0}

\* /proc/net/dev as a refresh finds it: unreadable, or the interfaces that
\* exist at that moment in the order of their lines.
ProcNetDev ==
  {[opened |-> FALSE, lines |-> <<>>]}
  \cup {[opened |-> TRUE, lines |-> [k \in DOMAIN names |-> IfaceLine(names[k])]] :
          names \in {s \in UNION {[1..n -> IfaceNames] : n \in 0..3} :
                       \A i \in DOMAIN s, j \in DOMAIN s : s[i] = s[j] => i = j}}

IfaceReadFailed(error) ==
  [ok |-> FALSE, rx |-> 0, tx |-> 0, selected |-> Str_empty, error |-> error]

\* read_interface_bytes, the scan of the interface lines: the first line that
\* passes the request and the loopback policy.
read_interface_lines(host, requested, include_loopback) ==
  LET has_request == requested # NULL /\ requested # Str_empty
      taken == {k \in DOMAIN host.lines :
                  /\ ~(has_request /\ host.lines[k].ifname # requested)
                  /\ ~(~include_loopback /\ ~has_request
                       /\ host.lines[k].ifname = Str_lo)}
  IN  IF ~host.opened
        THEN IfaceReadFailed("failed to open /proc/net/dev")
      ELSE IF taken = {}
        THEN IfaceReadFailed(IF has_request THEN "requested interface not found"
                                            ELSE "no interface found")
      ELSE \* the loop breaks at the first line taken
           LET k == CHOOSE i \in taken : \A j \in taken : i <= j
           IN  [ok |-> TRUE, rx |-> host.lines[k].rx, tx |-> host.lines[k].tx,
                selected |-> copy_ifname(host.lines[k].ifname), error |-> "none"]

NoIfaceState == [ifname |-> Str_empty, include_loopback |-> FALSE, has_data |-> FALSE]

\* network_create: the configured name, or the interface the first read selects.
network_create(iface, include_loopback, host) ==
  LET ifname == IF iface # NULL /\ iface # Str_empty THEN copy_ifname(iface)
                                                     ELSE Str_empty
      r == read_interface_lines(host, IF ifname # Str_empty THEN ifname ELSE NULL,
                                include_loopback)
  IN  IF ~r.ok
        THEN [rc |-> SYSMON_ERR_NOT_SUPPORTED, state |-> NoIfaceState]
        ELSE [rc |-> SYSMON_OK,
              state |-> [ifname |-> IF ifname = Str_empty THEN copy_ifname(r.selected)
                                                          ELSE ifname,
                         include_loopback |-> include_loopback,
                         has_data |-> FALSE]]

\* A refresh that asks for the first interface the loopback policy allows.
network_poll_reselecting(st, refresh_now, host) ==
  IF refresh_now \/ ~st.has_data
    THEN LET r == read_interface_lines(host, NULL, st.include_loopback)
         IN  IF ~r.ok
               THEN [rc |-> SYSMON_ERR_IO, state |-> st, interface |-> NULL,
                     rx |-> 0, tx |-> 0, queried |-> TRUE]
               ELSE [rc |-> SYSMON_OK, state |-> [st EXCEPT !.has_data = TRUE],
                     interface |-> st.ifname, rx |-> r.rx, tx |-> r.tx,
                     queried |-> TRUE]
    ELSE [rc |-> SYSMON_OK, state |-> st, interface |-> st.ifname,
          rx |-> 0, tx |-> 0, queried |-> FALSE]

\* network_poll, the interface it reads and the network.interface it adds.
network_poll_interface(st, refresh_now, host) ==
  IF refresh_now \/ ~st.has_data
    THEN LET r == read_interface_lines(host, st.ifname, st.include_loopback)
         IN  IF ~r.ok
               THEN [rc |-> SYSMON_ERR_IO, state |-> st, interface |-> NULL,
                     rx |-> 0, tx |-> 0, queried |-> TRUE]
               ELSE [rc |-> SYSMON_OK, state |-> [st EXCEPT !.has_data = TRUE],
                     interface |-> st.ifname, rx |-> r.rx, tx |-> r.tx,
                     queried |-> TRUE]
    ELSE [rc |-> SYSMON_OK, state |-> st, interface |-> st.ifname,
          rx |-> 0, tx |-> 0, queried |-> FALSE]

NoHost == [opened |-> FALSE, lines |-> <<>>]

\* A network section before network_create runs on it.
InterfaceCollector ==
  [kind |-> "interface", phase |-> "none",
   iface |-> NULL, created_on |-> NoHost, st |-> NoIfaceState,
   rc |-> "none", polled_on |-> NoHost, queried |-> FALSE,
   interface |-> NULL, rx |-> 0, tx |-> 0, first |-> NULL]

ConfiguredInterfaces == {NULL, Str_empty, Str_lo, Str_eth0, LongIfname}

\* The vtable's create on one [network] section and one host.
NetworkCreate ==
  /\ coll.kind = "interface" /\ coll.phase = "none"
  /\ \E iface \in ConfiguredInterfaces, include_loopback \in BOOLEAN,
        host \in ProcNetDev :
       \E c \in {network_create(iface, include_loopback, host)} :
         coll' = [coll EXCEPT !.phase = IF c.rc = SYSMON_OK THEN "created" ELSE "failed",
                              !.iface = iface, !.created_on = host,
                              !.st = c.state, !.rc = c.rc]
  /\ UNCHANGED <<phase, create_rc, out_sysmon, scenario, interval_ms, modules,
                 last_error, create_log, destroy_calls, clock, round, hist,
                 snap, ini_call, table,
                 null_destroys>>

\* One call of the vtable's poll on whatever the host lists at that moment.
NetworkRefresh ==
  /\ coll.kind = "interface" /\ coll.phase = "created"
  /\ \E refresh_now \in BOOLEAN, host \in ProcNetDev :
       \E r \in {network_poll_interface(coll.st, refresh_now, host)} :
         coll' = [coll EXCEPT !.st = r.state, !.rc = r.rc, !.polled_on = host,
                              !.queried = r.queried, !.interface = r.interface,
                              !.rx = r.rx, !.tx = r.tx,
                              !.first = IF @ = NULL THEN r.interface ELSE @]
  /\ UNCHANGED <<phase, create_rc, out_sysmon, scenario, interval_ms, modules,
                 last_error, create_log, destroy_calls, clock, round, hist,
                 snap, ini_call, table,
                 null_destroys>>

InterfaceInit == EngineInit /\ Alone /\ coll = InterfaceCollector

InterfaceNext == NetworkCreate \/ NetworkRefresh

SpecInterfaces == InterfaceInit /\ [][InterfaceNext]_vars

\* The interface a [network] section stands for on the host it is created on:
\* the configured name, or the first line the loopback policy lets through.
ResolvedOn(iface, include_loopback, host) ==
  IF iface # NULL /\ iface # Str_empty
    THEN iface
    ELSE LET allowed == {k \in DOMAIN host.lines :
                           include_loopback \/ host.lines[k].ifname # Str_lo}
         IN  host.lines[Lowest(allowed)].ifname

LinesOf(host, name) == {k \in DOMAIN host.lines : host.lines[k].ifname = name}

\* C31: a created network module holds the interface resolved at creation (the
\* configured name, or the first one the loopback policy allows); every
\* snapshot carries that name as network.interface, every refresh reads the
\* counters of the line with that name, and a refresh that does not find the
\* name fails with SYSMON_ERR_IO and reads no other interface.
C31_InterfaceResolvedOnce ==
  (coll.kind = "interface" /\ coll.phase = "created") =>
    LET resolved == ResolvedOn(coll.iface, coll.st.include_loopback, coll.created_on)
        found == IF coll.polled_on.opened THEN LinesOf(coll.polled_on, resolved) ELSE {}
    IN  /\ coll.st.ifname = resolved
        /\ coll.first \in {NULL, resolved}
        /\ (coll.rc = SYSMON_OK /\ coll.interface # NULL) => coll.interface = resolved
        /\ (coll.interface # NULL /\ coll.queried) =>
             /\ found # {}
             /\ \A k \in found : /\ coll.rx = coll.polled_on.lines[k].rx
                                 /\ coll.tx = coll.polled_on.lines[k].tx
        /\ (coll.polled_on # NoHost /\ coll.queried /\ found = {}) =>
             coll.rc = SYSMON_ERR_IO /\ coll.interface = NULL

\* A refresh on a host that lost the resolved interface and still lists
\* another one the loopback policy allows.
C31_Witness ==
  /\ coll.kind = "interface" /\ coll.phase = "created"
  /\ coll.iface = NULL
  /\ coll.st.ifname = Str_eth0
  /\ coll.first = Str_eth0
  /\ coll.queried
  /\ coll.polled_on.opened
  /\ LinesOf(coll.polled_on, Str_eth0) = {}
  /\ LinesOf(coll.polled_on, Str_wlan0) # {}
  /\ coll.rc = SYSMON_ERR_IO

\* ---------------------------------------------------------------------------
\* ram collector: ram_state_t, read_total_mem, read_mem_used_free, ram_create,
\* ram_poll
\* ---------------------------------------------------------------------------

\* The kB figures a /proc/meminfo line can carry (unsigned long long): small
\* ones, one whose byte count wraps to 1024, and the largest.
MemKb ==
  {U64Zero, U64Of(1), U64Of(2), <<64, 0, 0, 1>>,
   <<Limb - 1, Limb - 1, Limb - 1, Limb - 1>>}

\* /proc/meminfo at one read: unreadable, or its MemTotal, MemFree and
\* MemAvailable lines (a missing MemFree or MemAvailable parses as 0).
MemInfo ==
  {[opened |-> FALSE, has_total |-> FALSE, mem_total_kb |-> U64Zero,
    mem_free_kb |-> U64Zero, mem_available_kb |-> U64Zero]}
  \cup {m \in [opened : {TRUE}, has_total : BOOLEAN, mem_total_kb : MemKb,
                mem_free_kb : MemKb, mem_available_kb : MemKb] :
          /\ m.has_total \/ m.mem_total_kb = U64Zero
          /\ \/ m.mem_free_kb = U64Zero
             \/ m.mem_available_kb = U64Zero
             \/ m.mem_free_kb = U64Of(2) /\ m.mem_available_kb = U64Of(1)}

\* /proc/meminfo as a poll finds it: as above, the MemTotal line missing, 1 kB
\* or the largest.
MemInfoLater ==
  {m \in MemInfo : m.mem_total_kb \in {U64Zero, U64Of(1),
                                       <<Limb - 1, Limb - 1, Limb - 1, Limb - 1>>}}

\* (uint64_t)kb * 1024ull
KbToBytes(kb) == U64MulAdd(kb, 1024, 0)

\* read_total_mem: the MemTotal line in bytes.
read_total_mem(meminfo) ==
  IF meminfo.opened /\ meminfo.has_total
    THEN [ok |-> TRUE, total |-> KbToBytes(meminfo.mem_total_kb)]
    ELSE [ok |-> FALSE, total |-> U64Zero]

\* The free bytes read_mem_used_free starts from: MemAvailable, or MemFree
\* when MemAvailable is 0.
mem_free_bytes(meminfo) ==
  KbToBytes(IF meminfo.mem_available_kb # U64Zero THEN meminfo.mem_available_kb
                                                  ELSE meminfo.mem_free_kb)

\* A read that keeps a free figure larger than the total.
read_mem_used_free_unclamped(total_bytes, meminfo) ==
  IF ~meminfo.opened
    THEN [ok |-> FALSE, used |-> U64Zero, free_b |-> U64Zero]
    ELSE [ok |-> TRUE, used |-> U64Sub(total_bytes, mem_free_bytes(meminfo)),
          free_b |-> mem_free_bytes(meminfo)]

\* read_mem_used_free: used and free against the total given.
read_mem_used_free(total_bytes, meminfo) ==
  IF ~meminfo.opened
    THEN [ok |-> FALSE, used |-> U64Zero, free_b |-> U64Zero]
    ELSE LET free_bytes == IF U64Less(total_bytes, mem_free_bytes(meminfo))
                             THEN U64Zero ELSE mem_free_bytes(meminfo)
         IN  [ok |-> TRUE, used |-> U64Sub(total_bytes, free_bytes),
              free_b |-> free_bytes]

NoRamState ==
  [total_bytes |-> U64Zero, last_used_bytes |-> U64Zero, last_free_bytes |-> U64Zero,
   last_used_percent |-> DoubleZero, has_data |-> FALSE]

\* ram_create: calloc, then total_bytes from read_total_mem.
ram_create(meminfo) ==
  LET r == read_total_mem(meminfo)
  IN  IF ~r.ok
        THEN [rc |-> SYSMON_ERR_NOT_SUPPORTED, state |-> NoRamState]
        ELSE [rc |-> SYSMON_OK, state |-> [NoRamState EXCEPT !.total_bytes = r.total]]

\* st->total_bytes > 0 ? (double)used * 100.0 / (double)st->total_bytes : 0.0
ram_used_percent(used, total_bytes) ==
  IF total_bytes # U64Zero
    THEN DoubleDiv(DoubleTimes(DoubleOfU64(used), 100), DoubleOfU64(total_bytes))
    ELSE DoubleZero

NoRamMetrics ==
  [added |-> 0, total_bytes |-> U64Zero, used_bytes |-> U64Zero,
   free_bytes |-> U64Zero, used_percent |-> DoubleZero]

\* The ram.* metrics ram_poll adds from a state.
ram_adds(st) ==
  [added |-> IF st.total_bytes # U64Zero THEN 4 ELSE 3,
   total_bytes |-> st.total_bytes, used_bytes |-> st.last_used_bytes,
   free_bytes |-> st.last_free_bytes,
   used_percent |-> IF st.total_bytes # U64Zero THEN st.last_used_percent
                                                ELSE DoubleZero]

\* The state a refresh stores from a successful read.
ram_refreshed(st, r) ==
  [st EXCEPT !.last_used_bytes = r.used, !.last_free_bytes = r.free_b,
             !.last_used_percent = ram_used_percent(r.used, st.total_bytes),
             !.has_data = TRUE]

\* A poll that takes the total anew from the MemTotal line of each refresh.
ram_poll_resampling(st, refresh_now, meminfo) ==
  IF refresh_now \/ ~st.has_data
    THEN LET again == [st EXCEPT !.total_bytes = KbToBytes(meminfo.mem_total_kb)]
             r == read_mem_used_free(again.total_bytes, meminfo)
         IN  IF ~r.ok
               THEN [rc |-> SYSMON_ERR_NOT_SUPPORTED, state |-> st,
                     adds |-> FALSE, queried |-> TRUE]
               ELSE [rc |-> SYSMON_OK, state |-> ram_refreshed(again, r),
                     adds |-> TRUE, queried |-> TRUE]
    ELSE [rc |-> SYSMON_OK, state |-> st, adds |-> TRUE, queried |-> FALSE]

\* ram_poll with its arithmetic: the result, the state it leaves and whether
\* it reaches the builder.
ram_poll_bytes(st, refresh_now, meminfo) ==
  IF refresh_now \/ ~st.has_data
    THEN LET r == read_mem_used_free(st.total_bytes, meminfo)
         IN  IF ~r.ok
               THEN [rc |-> SYSMON_ERR_NOT_SUPPORTED, state |-> st,
                     adds |-> FALSE, queried |-> TRUE]
               ELSE [rc |-> SYSMON_OK, state |-> ram_refreshed(st, r),
                     adds |-> TRUE, queried |-> TRUE]
    ELSE [rc |-> SYSMON_OK, state |-> st, adds |-> TRUE, queried |-> FALSE]

NoMemInfo ==
  [opened |-> FALSE, has_total |-> FALSE, mem_total_kb |-> U64Zero,
   mem_free_kb |-> U64Zero, mem_available_kb |-> U64Zero]

\* What a poll met in /proc/meminfo: the MemTotal line and the free bytes
\* before any clamping.
MemSeen(meminfo) ==
  [opened |-> meminfo.opened, has_total |-> meminfo.has_total,
   mem_total_kb |-> meminfo.mem_total_kb, free_bytes |-> mem_free_bytes(meminfo)]

\* A ram module before ram_create runs.
RamCollector ==
  [kind |-> "ram", phase |-> "none", created_on |-> NoMemInfo, st |-> NoRamState,
   rc |-> "none", polled |-> FALSE, polled_on |-> MemSeen(NoMemInfo), queried |-> FALSE,
   adds |-> FALSE,
   metrics |-> NoRamMetrics, before |-> NoRamState, first_total |-> NULL]

\* The vtable's create on one host.
RamCreate ==
  /\ coll.kind = "ram" /\ coll.phase = "none"
  /\ \E meminfo \in MemInfo :
       \E c \in {ram_create(meminfo)} :
         coll' = [coll EXCEPT !.phase = IF c.rc = SYSMON_OK THEN "created" ELSE "failed",
                              !.created_on = meminfo, !.st = c.state, !.rc = c.rc]
  /\ UNCHANGED <<phase, create_rc, out_sysmon, scenario, interval_ms, modules,
                 last_error, create_log, destroy_calls, clock, round, hist,
                 snap, ini_call, table,
                 null_destroys>>

\* One call of the vtable's poll on what /proc/meminfo holds at that moment.
RamPoll ==
  /\ coll.kind = "ram" /\ coll.phase = "created"
  /\ \E refresh_now \in BOOLEAN, meminfo \in MemInfoLater :
       \E r \in {ram_poll_bytes(coll.st, refresh_now, meminfo)} :
       \E metrics \in {IF r.adds THEN ram_adds(r.state) ELSE NoRamMetrics} :
         coll' = [coll EXCEPT !.st = r.state, !.rc = r.rc, !.polled = TRUE,
                              !.polled_on = MemSeen(meminfo),
                              !.queried = r.queried, !.adds = r.adds,
                              !.metrics = metrics,
                              !.before = coll.st,
                              !.first_total = IF @ = NULL /\ r.rc = SYSMON_OK
                                                THEN metrics.total_bytes ELSE @]
  /\ UNCHANGED <<phase, create_rc, out_sysmon, scenario, interval_ms, modules,
                 last_error, create_log, destroy_calls, clock, round, hist,
                 snap, ini_call, table,
                 null_destroys>>

RamInit == EngineInit /\ Alone /\ coll = RamCollector

RamNext == RamCreate \/ RamPoll

SpecRam == RamInit /\ [][RamNext]_vars

\* C32: the total a ram module holds is the MemTotal sampled by ram_create;
\* every poll adds that value as ram.total_bytes, so all snapshots of one
\* module carry the same total, whatever MemTotal later reads report, and a
\* refresh changes only used, free and used-percent, the percentage being that
\* of the used bytes against the fixed total.
C32_RamTotalSampledOnce ==
  (coll.kind = "ram" /\ coll.phase = "created") =>
    LET total == KbToBytes(coll.created_on.mem_total_kb)
    IN  /\ coll.st.total_bytes = total
        /\ coll.first_total \in {NULL, total}
        /\ coll.metrics.added > 0 =>
             /\ coll.metrics.total_bytes = total
             /\ coll.metrics.added = 4 =>
                  coll.metrics.used_percent
                    = DoubleDiv(DoubleTimes(DoubleOfU64(coll.metrics.used_bytes), 100),
                                DoubleOfU64(total))
        /\ coll.polled => coll.st.total_bytes = coll.before.total_bytes

\* A second successful refresh on a host whose MemTotal line has changed
\* since creation.
C32_Witness ==
  /\ coll.kind = "ram" /\ coll.phase = "created"
  /\ coll.rc = SYSMON_OK /\ coll.queried
  /\ coll.before.has_data
  /\ coll.polled_on.has_total
  /\ coll.polled_on.mem_total_kb # coll.created_on.mem_total_kb
  /\ KbToBytes(coll.polled_on.mem_total_kb) # coll.st.total_bytes
  /\ coll.metrics.added = 4
  /\ coll.st.last_used_bytes # coll.before.last_used_bytes

\* C33: whenever ram_poll adds the ram metrics, from a refresh or from the
\* cache, ram.used_bytes + ram.free_bytes = ram.total_bytes without wrapping
\* and ram.used_bytes <= ram.total_bytes; a refresh that read more free bytes
\* than the total stores free = 0 and used = total, any other refresh stores
\* the free bytes it read.
C33_RamUsedPlusFreeIsTotal ==
  (coll.kind = "ram" /\ coll.phase = "created" /\ coll.metrics.added > 0) =>
    /\ ~U64Less(coll.metrics.total_bytes, coll.metrics.used_bytes)
    /\ ~U64Less(coll.metrics.total_bytes, coll.metrics.free_bytes)
    /\ U64Sub(coll.metrics.total_bytes, coll.metrics.free_bytes)
         = coll.metrics.used_bytes
    /\ coll.queried =>
         IF U64Less(coll.metrics.total_bytes, coll.polled_on.free_bytes)
           THEN /\ coll.metrics.free_bytes = U64Zero
                /\ coll.metrics.used_bytes = coll.metrics.total_bytes
           ELSE coll.metrics.free_bytes = coll.polled_on.free_bytes

\* A refresh whose free figure is larger than the non-zero total.
C33_Witness ==
  /\ coll.kind = "ram" /\ coll.phase = "created"
  /\ coll.rc = SYSMON_OK /\ coll.queried
  /\ coll.metrics.added = 4
  /\ U64Less(coll.metrics.total_bytes, coll.polled_on.free_bytes)
  /\ coll.metrics.free_bytes = U64Zero

\* ---------------------------------------------------------------------------
\* battery collector: battery_state_t, set_default_status, battery_poll
\* ---------------------------------------------------------------------------

Str_unknown == <<"u", "n", "k", "n", "o", "w", "n">>
Str_charging == <<"c", "h", "a", "r", "g", "i", "n", "g">>
Str_Charging == <<"C", "h", "a", "r", "g", "i", "n", "g">>
Str_Full == <<"F", "u", "l", "l">>

\* The state battery_create leaves behind: calloc and set_default_status.
battery_create_state ==
  [last_percent |-> DoubleZero, last_is_charging |-> 0,
   last_status |-> Str_unknown, has_data |-> FALSE]

\* The capacity and status files of the battery at one refresh; cap_ok and
\* status_ok say whether read_u32_file and read_string_file succeed.
BatteryReadings ==
  [cap_ok : BOOLEAN, cap : {0, 1, 100}, status_ok : BOOLEAN,
   status : {Str_Charging, Str_charging, Str_Full}]

BatteryReadFailed ==
  [cap_ok |-> FALSE, cap |-> 0, status_ok |-> FALSE, status |-> Str_Full]

\* The state a refresh stores once the capacity has been read.
battery_refreshed(st, read) ==
  LET status == IF read.status_ok THEN read.status ELSE st.last_status
  IN  [last_percent |-> DoubleOfU64(U64Of(read.cap)),
       last_is_charging |-> IF Lowered(status) = Str_charging THEN 1 ELSE 0,
       last_status |-> status,
       has_data |-> TRUE]

\* A poll that marks its cache filled before it reads the capacity.
battery_poll_marking(st, refresh_now, read) ==
  IF refresh_now \/ ~st.has_data
    THEN IF ~read.cap_ok
           THEN [rc |-> SYSMON_ERR_NOT_SUPPORTED,
                 state |-> [st EXCEPT !.has_data = TRUE],
                 queried |-> TRUE, adds |-> FALSE]
           ELSE [rc |-> SYSMON_OK, state |-> battery_refreshed(st, read),
                 queried |-> TRUE, adds |-> TRUE]
    ELSE [rc |-> SYSMON_OK, state |-> st, queried |-> FALSE, adds |-> TRUE]

\* battery_poll: the result, the state it leaves and whether it reaches the
\* builder.
battery_poll_values(st, refresh_now, read) ==
  IF refresh_now \/ ~st.has_data
    THEN IF ~read.cap_ok
           THEN [rc |-> SYSMON_ERR_NOT_SUPPORTED, state |-> st,
                 queried |-> TRUE, adds |-> FALSE]
           ELSE [rc |-> SYSMON_OK, state |-> battery_refreshed(st, read),
                 queried |-> TRUE, adds |-> TRUE]
    ELSE [rc |-> SYSMON_OK, state |-> st, queried |-> FALSE, adds |-> TRUE]

\* A battery instance after battery_create, before its first poll.
BatteryCollector ==
  [kind |-> "battery", st |-> battery_create_state, rc |-> "none",
   queried |-> FALSE, adds |-> FALSE, read |-> BatteryReadFailed]

\* One call of the battery vtable's poll.
BatteryPoll ==
  /\ coll.kind = "battery"
  /\ \E refresh_now \in BOOLEAN :
     \E read \in IF refresh_now \/ ~coll.st.has_data
                   THEN BatteryReadings ELSE {BatteryReadFailed} :
       \E r \in {battery_poll_values(coll.st, refresh_now, read)} :
         coll' = [kind |-> "battery", st |-> r.state, rc |-> r.rc,
                  queried |-> r.queried, adds |-> r.adds,
                  read |-> IF r.queried THEN read ELSE BatteryReadFailed]
  /\ UNCHANGED <<phase, create_rc, out_sysmon, scenario, interval_ms, modules,
                 last_error, create_log, destroy_calls, clock, round, hist,
                 snap, ini_call, table,
                 null_destroys>>

\* ---------------------------------------------------------------------------
\* The five collectors polled alone, each from the state its create leaves.
\* ---------------------------------------------------------------------------

RamCreated ==
  {[RamCollector EXCEPT !.phase = "created", !.created_on = meminfo,
                        !.st = ram_create(meminfo).state, !.rc = SYSMON_OK] :
     meminfo \in {m \in MemInfo : /\ m.has_total /\ m.mem_total_kb = U64Of(2)
                                  /\ m.mem_free_kb = U64Zero
                                  /\ m.mem_available_kb = U64Zero}}

FiveCollectorsInit ==
  /\ EngineInit
  /\ Alone
  /\ coll \in {CpuCollector(core_count) : core_count \in 0..1}
              \cup {NetworkCollector, StorageCollector, BatteryCollector}
              \cup RamCreated

FiveCollectorsNext == CpuPoll \/ RamPoll \/ BatteryPoll \/ NetworkPoll \/ StoragePoll

SpecFiveCollectors == FiveCollectorsInit /\ [][FiveCollectorsNext]_vars

\* The last poll of the collector asked its source and the read failed.
SourceReadFailed(c) == c.rc \notin {"none", SYSMON_OK} /\ c.queried

C35_FailedAddLeavesBuilder ==
  [][(snap.phase = "building" /\ snap'.phase = "building"
      /\ snap'.rc # SYSMON_OK)
       => snap'.builder.metrics = snap.builder.metrics]_vars

\* The records of the round's builder that the caller received in a snapshot.
HandedOver == IF round.snapshot.null THEN 0 ELSE Len(round.snapshot.metrics)

\* C36: in every sysmon_poll each record appended to the round's builder is
\* either handed to the returned snapshot or released by the builder destroy,
\* never both and never neither: a round that returns OK returns a snapshot
\* holding all of them and its builder destroy releases none; a round whose
\* finalize fails or that aborts returns no snapshot and its builder destroy
\* releases all of them.
C36_RecordsReleasedOrHandedOnce ==
  round.called =>
    /\ HandedOver + round.freed = round.built
    /\ round.rc = SYSMON_OK =>
         /\ ~round.snapshot.null
         /\ HandedOver = round.built
         /\ round.freed = 0
    /\ round.rc # SYSMON_OK =>
         /\ round.snapshot.null
         /\ round.freed = round.built

\* A round that returned a snapshot of several records, one of them the
\* error metric of a module that failed.
C36_Witness ==
  /\ round.called /\ round.rc = SYSMON_OK
  /\ round.built >= 2
  /\ HandedOver = round.built
  /\ round.freed = 0
  /\ \E i \in ModuleIdx : round.mrc[i] \notin {"none", SYSMON_OK}

\* C37: a sysmon_poll call that returns SYSMON_OK leaves sysmon->last_error as
\* it was before the call, also when modules of the round failed and were
\* reported as module.<name>.error metrics.
C37_OkPollKeepsLastError ==
  [][(phase = "live" /\ phase' = "live" /\ round'.called /\ round'.rc = SYSMON_OK)
       => last_error' = last_error]_vars

\* An OK round with a failed module, on an Engine that holds the message of
\* an earlier aborted round.
C37_Witness ==
  /\ phase = "live"
  /\ round.called /\ round.rc = SYSMON_OK
  /\ \E i \in ModuleIdx :
       /\ round.mrc[i] \notin {"none", SYSMON_OK}
       /\ HasMetric(round.snapshot, ErrorMetricName(NameOf(i)))
  /\ last_error = "out of memory"

\* C38: a network refresh on a filled cache at a now value equal to or below
\* the previous sample time sets both rates to 0, and still replaces the
\* cached counters by the ones read and the sample time by that now value.
C38_NoElapsedTimeGivesZeroRates ==
  (/\ coll.kind = "network"
   /\ coll.queried /\ coll.rc = SYSMON_OK
   /\ coll.before.has_data
   /\ coll.now <= coll.before.refreshed_at) =>
    /\ coll.st.last_rx_rate = DoubleZero
    /\ coll.st.last_tx_rate = DoubleZero
    /\ coll.st.last_rx_bytes = coll.read.rx
    /\ coll.st.last_tx_bytes = coll.read.tx
    /\ coll.st.last_ts_ms = coll.now
    /\ coll.st.has_data

\* A refresh at a time below the previous sample time whose counters have
\* grown since that sample.
C38_Witness ==
  /\ coll.kind = "network"
  /\ coll.queried /\ coll.rc = SYSMON_OK
  /\ coll.before.has_data
  /\ coll.now < coll.before.refreshed_at
  /\ U64Less(coll.before.rx, coll.read.rx)
  /\ U64Less(coll.before.tx, coll.read.tx)
  /\ coll.st.last_rx_rate = DoubleZero

====
